---- MODULE Spec2Model ----
(***************************************************************************)
(* Rate Comparison Analysis wizard: the report aggregation of              *)
(* StepDataVisualization (getFeatureCode, getStoreAdjustment, groupedData).*)
(*                                                                         *)
(* Representation.                                                         *)
(*  - A JavaScript string that the code inspects character by character    *)
(*    (size labels, feature codes, group keys) is a sequence of            *)
(*    one-character strings; a string only compared for equality (the      *)
(*    feature tag) is a TLA+ string.                                       *)
(*  - An optional value (null / undefined / NaN) is None (the empty        *)
(*    sequence); a present value v is Some(v).                             *)
(*  - Numbers produced by division are exact rationals <<n, d>> in lowest  *)
(*    terms with d > 0 (IEEE rounding of the doubles is not modelled).     *)
(*  - A date is a month index; "N months before now" is now - N.           *)
(***************************************************************************)
EXTENDS Integers, Sequences, FiniteSets, Bags, TLC

VARIABLES
    rateRecords,        \* props.rateRecords: sequence of rate observations
    featureCodes,       \* props.featureCodes: sequence of [originalTag, code]
    storeRankings,      \* props.storeRankings: store id -> optional rankings
    adjustmentFactors,  \* props.adjustmentFactors: three optional percentages
    subjectStore,       \* props.subjectStore: optional store id
    selectedStores,     \* props.selectedStores: sequence of [storeId, distance]
    selectedSizes,      \* useState selectedSizes: sequence of size labels
    now,                \* the wall clock (month index)
    computedAt,         \* the clock value read by the last groupedData run
    groupedData,        \* the memoised report
    sizeLabel,          \* a unit-size label handed to normalizeSize
    normalizedSize,     \* what normalizeSize returned for it
    localStorage,       \* window.localStorage: key -> optional stored text
    storageAvailable,   \* FALSE: every localStorage operation throws
    clock,              \* Date.now(), in minutes
    completion,         \* how the last call of the storage layer completed
    wizardState,        \* the in-memory state of useRCAWizard
    stepNumber,         \* the step of the current URL
    keepaliveInterval,  \* keepalive.ts: the id of the interval timer, or null
    timers,             \* the live interval timers of the window
    timerIds,           \* the number of timer ids handed out by setInterval
    keepaliveWrites,    \* how many times 'app-keepalive' has been written
    lastSave,           \* history: the last save or clear of the wizard state
    activityListeners   \* the page instances whose activity listeners are registered

\* the state of the report component
reportVars == <<rateRecords, featureCodes, storeRankings, adjustmentFactors,
                subjectStore, selectedStores, selectedSizes, now, computedAt,
                groupedData>>

\* the state of the size label under normalisation
labelVars == <<sizeLabel, normalizedSize>>

\* the state of the storage layer and of the wizard page
storageVars == <<localStorage, storageAvailable, clock, completion,
                 wizardState, stepNumber, lastSave>>

\* the state of keepalive.ts
keepaliveVars == <<keepaliveInterval, timers, timerIds, keepaliveWrites>>

vars == <<reportVars, labelVars, storageVars, keepaliveVars, activityListeners>>

----------------------------------------------------------------------------
(* Optional values *)

None == <<>>

Some(v) == <<v>>

IsSome(o) == Len(o) = 1

Val(o) == o[1]

----------------------------------------------------------------------------
(* Exact rational arithmetic *)

RECURSIVE GCD(_, _)
GCD(a, b) == IF b = 0 THEN a ELSE GCD(b, a % b)

Abs(n) == IF n < 0 THEN -n ELSE n

Rat(n, d) ==
    LET g == GCD(Abs(n), d)
    IN  IF n = 0 THEN <<0, 1>> ELSE <<n \div g, d \div g>>

RInt(n) == <<n, 1>>

RAdd(p, q) == Rat(p[1] * q[2] + q[1] * p[2], p[2] * q[2])

RMul(p, q) == Rat(p[1] * q[1], p[2] * q[2])

RLeq(p, q) == p[1] * q[2] <= q[1] * p[2]

RLess(p, q) == p[1] * q[2] < q[1] * p[2]

----------------------------------------------------------------------------
(* Characters and strings *)

UpperCase == <<"A","B","C","D","E","F","G","H","I","J","K","L","M",
               "N","O","P","Q","R","S","T","U","V","W","X","Y","Z">>

LowerCase == <<"a","b","c","d","e","f","g","h","i","j","k","l","m",
               "n","o","p","q","r","s","t","u","v","w","x","y","z">>

Digits == <<"0","1","2","3","4","5","6","7","8","9">>

IndexIn(c, alphabet) ==
    IF \E i \in DOMAIN alphabet : alphabet[i] = c
    THEN CHOOSE i \in DOMAIN alphabet : alphabet[i] = c
    ELSE 0

LowerOf == [c \in {UpperCase[i] : i \in DOMAIN UpperCase} |-> LowerCase[IndexIn(c, UpperCase)]]

\* String.prototype.toLowerCase on one character
toLowerChar(c) == IF c \in DOMAIN LowerOf THEN LowerOf[c] ELSE c

toLowerCase(s) == [i \in DOMAIN s |-> toLowerChar(s[i])]

\* the characters matched by the regular expression class \s
IsWhitespace(c) == c \in {" ", "\t"}

\* s.replace(/<class>/g, '') : drop every character satisfying Drop
RECURSIVE RemoveChars(_, _)
RemoveChars(s, drop) ==
    IF s = <<>> THEN <<>>
    ELSE IF Head(s) \in drop THEN RemoveChars(Tail(s), drop)
    ELSE <<Head(s)>> \o RemoveChars(Tail(s), drop)

\* s.replace(/c/g, d) for single characters c and d
ReplaceChar(s, c, d) == [i \in DOMAIN s |-> IF s[i] = c THEN d ELSE s[i]]

\* s.split(/\s+/): tokens between maximal whitespace runs; a leading or
\* trailing run yields an empty first or last token
RECURSIVE SplitWs(_, _, _)
SplitWs(s, cur, inRun) ==
    IF s = <<>> THEN <<cur>>
    ELSE IF IsWhitespace(Head(s))
         THEN IF inRun THEN SplitWs(Tail(s), cur, TRUE)
              ELSE <<cur>> \o SplitWs(Tail(s), <<>>, TRUE)
         ELSE SplitWs(Tail(s), Append(cur, Head(s)), FALSE)

\* s.split(c) for a single separator character
RECURSIVE SplitChar(_, _, _)
SplitChar(s, c, cur) ==
    IF s = <<>> THEN <<cur>>
    ELSE IF Head(s) = c THEN <<cur>> \o SplitChar(Tail(s), c, <<>>)
    ELSE SplitChar(Tail(s), c, Append(cur, Head(s)))

\* parseFloat on the model's alphabet (no sign, point or exponent occurs):
\* skip leading whitespace, read the longest prefix of digits; NaN (None)
\* when that prefix is empty
DigitValue == [c \in {Digits[i] : i \in DOMAIN Digits} |-> IndexIn(c, Digits) - 1]

RECURSIVE DigitPrefix(_, _, _)
DigitPrefix(s, acc, seen) ==
    IF s = <<>> \/ Head(s) \notin DOMAIN DigitValue
    THEN IF seen THEN Some(acc) ELSE None
    ELSE DigitPrefix(Tail(s), acc * 10 + DigitValue[Head(s)], TRUE)

RECURSIVE SkipWs(_)
SkipWs(s) ==
    IF s # <<>> /\ IsWhitespace(Head(s)) THEN SkipWs(Tail(s)) ELSE s

parseFloat(s) == DigitPrefix(SkipWs(s), 0, FALSE)

\* parseInt(s, 10): skip leading whitespace, an optional sign, then the
\* longest prefix of digits; NaN (None) when that prefix is empty
Signed(s) ==
    IF s # <<>> /\ Head(s) = "-"
    THEN IF IsSome(DigitPrefix(Tail(s), 0, FALSE))
         THEN Some(0 - Val(DigitPrefix(Tail(s), 0, FALSE)))
         ELSE None
    ELSE IF s # <<>> /\ Head(s) = "+" THEN DigitPrefix(Tail(s), 0, FALSE)
    ELSE DigitPrefix(s, 0, FALSE)

parseInt(s) == Signed(SkipWs(s))

\* collation rank of a character for localeCompare: punctuation, then
\* digits, then letters
CollationOrder == <<" ", "'", "-", "/", "|">> \o Digits \o UpperCase

CollationRank ==
    [c \in {CollationOrder[i] : i \in DOMAIN CollationOrder} |-> IndexIn(c, CollationOrder)]

\* a.localeCompare(b) on strings over CollationOrder: -1, 0 or 1
RECURSIVE localeCompare(_, _)
localeCompare(a, b) ==
    IF a = <<>> /\ b = <<>> THEN 0
    ELSE IF a = <<>> THEN -1
    ELSE IF b = <<>> THEN 1
    ELSE IF CollationRank[Head(a)] < CollationRank[Head(b)] THEN -1
    ELSE IF CollationRank[Head(a)] > CollationRank[Head(b)] THEN 1
    ELSE localeCompare(Tail(a), Tail(b))

----------------------------------------------------------------------------
(* Helpers over sequences *)

RECURSIVE SumSeq(_)
SumSeq(s) == IF s = <<>> THEN 0 ELSE Head(s) + SumSeq(Tail(s))

\* Array.prototype.flat on a sequence of sequences
RECURSIVE Flat(_)
Flat(ss) == IF ss = <<>> THEN <<>> ELSE Head(ss) \o Flat(Tail(ss))

\* the distinct values of s in the order of their first occurrence
RECURSIVE Distinct(_, _)
Distinct(s, seen) ==
    IF s = <<>> THEN <<>>
    ELSE IF Head(s) \in seen THEN Distinct(Tail(s), seen)
    ELSE <<Head(s)>> \o Distinct(Tail(s), seen \cup {Head(s)})

\* the elements of a finite set of integers in ascending order
RECURSIVE Ascending(_)
Ascending(S) ==
    IF S = {} THEN <<>>
    ELSE LET m == CHOOSE x \in S : \A y \in S : x <= y
         IN  <<m>> \o Ascending(S \ {m})

Range(s) == {s[i] : i \in DOMAIN s}

----------------------------------------------------------------------------
(* StepDataVisualization: constants *)

S5x5 == <<"5","x","5">>
S5x10 == <<"5","x","1","0">>
S10x5 == <<"1","0","x","5">>
S10x10 == <<"1","0","x","1","0">>
S10x15 == <<"1","0","x","1","5">>
S10x20 == <<"1","0","x","2","0">>
S10x25 == <<"1","0","x","2","5">>
S10x30 == <<"1","0","x","3","0">>
S10x40 == <<"1","0","x","4","0">>
S15x15 == <<"1","5","x","1","5">>
S15x20 == <<"1","5","x","2","0">>
S20x20 == <<"2","0","x","2","0">>

DEFAULT_UNIT_SIZES == <<S5x5, S5x10, S10x10, S10x15, S10x20, S10x25, S10x30>>

ALL_UNIT_SIZES == <<S5x5, S5x10, S10x5, S10x10, S10x15, S10x20, S10x25,
                    S10x30, S10x40, S15x15, S15x20, S20x20>>

rankingCategories == <<"Location", "Age", "Accessibility", "VPD",
                       "Visibility & Signage", "Brand", "Quality", "Size">>

DefaultRanking == 5

Windows == {12, 6, 3, 1}

DUCC == <<"D","U","C","C">>
DU == <<"D","U">>
ECC == <<"E","C","C">>
ENCC == <<"E","N","C","C">>
GLCC == <<"G","L","C","C">>
GNCC == <<"G","N","C","C">>

----------------------------------------------------------------------------
(* getFeatureCode *)

\* parts.join(' / ')
RECURSIVE join(_, _)
join(parts, sep) ==
    IF parts = <<>> THEN ""
    ELSE IF Len(parts) = 1 THEN parts[1]
    ELSE parts[1] \o sep \o join(Tail(parts), sep)

\* featureTag with the first two access flags tested in the other order
featureTagElevatorFirst(record) ==
    LET access == IF record.elevator THEN "Elevator"
                  ELSE IF record.driveUp THEN "Drive-Up"
                  ELSE IF record.outdoorAccess THEN "Outdoor"
                  ELSE "Ground Level"
        climate == IF record.climateControlled THEN "Climate Controlled"
                   ELSE IF record.humidityControlled THEN "Humidity Controlled"
                   ELSE "Non-Climate"
    IN  join(<<access, climate>>, " / ")

featureTag(record) ==
    LET access == IF record.driveUp THEN "Drive-Up"
                  ELSE IF record.elevator THEN "Elevator"
                  ELSE IF record.outdoorAccess THEN "Outdoor"
                  ELSE "Ground Level"
        climate == IF record.climateControlled THEN "Climate Controlled"
                   ELSE IF record.humidityControlled THEN "Humidity Controlled"
                   ELSE "Non-Climate"
    IN  join(<<access, climate>>, " / ")

\* fallbackCode with humidity control counted as climate control
fallbackCodeHumidityIsClimate(record) ==
    LET isClimate == record.climateControlled \/ record.humidityControlled
    IN  IF record.driveUp THEN (IF isClimate THEN DUCC ELSE DU)
        ELSE IF record.elevator THEN (IF isClimate THEN ECC ELSE ENCC)
        ELSE (IF isClimate THEN GLCC ELSE GNCC)

fallbackCode(record) ==
    LET isClimate == record.climateControlled
    IN  IF record.driveUp THEN (IF isClimate THEN DUCC ELSE DU)
        ELSE IF record.elevator THEN (IF isClimate THEN ECC ELSE ENCC)
        ELSE (IF isClimate THEN GLCC ELSE GNCC)

getFeatureCode(p, record) ==
    LET tag == featureTag(record)
        hits == {i \in DOMAIN p.featureCodes : p.featureCodes[i].originalTag = tag}
    IN  IF hits # {}
        THEN p.featureCodes[CHOOSE i \in hits : \A j \in hits : i <= j].code
        ELSE fallbackCode(record)

----------------------------------------------------------------------------
(* getStoreAdjustment *)

\* x || 0 on an optional number
OrZero(x) == IF IsSome(x) THEN Val(x) ELSE 0

\* the base without the loss-to-lease and credit card components
totalAdjustmentPremiumOnly(p) == OrZero(p.adjustmentFactors.captiveMarketPremium)

totalAdjustment(p) ==
    OrZero(p.adjustmentFactors.captiveMarketPremium)
    + OrZero(p.adjustmentFactors.lossToLease)
    + OrZero(p.adjustmentFactors.ccAdj)

\* rankings[cat] || 5 : a missing score and the score 0 both give 5
rankingOrDefault(rankings, cat) ==
    IF IsSome(rankings[cat]) /\ Val(rankings[cat]) # 0
    THEN Val(rankings[cat]) ELSE DefaultRanking

\* the adjustment without the exemption of the subject store
getStoreAdjustmentSubjectAdjusted(p, storeId) ==
    IF ~IsSome(p.subjectStore) THEN RInt(0)
    ELSE LET subjectRankings == p.storeRankings[Val(p.subjectStore)]
             compRankings == p.storeRankings[storeId]
         IN  IF ~IsSome(subjectRankings) \/ ~IsSome(compRankings)
             THEN Rat(totalAdjustment(p), 100)
             ELSE LET diffs == [i \in DOMAIN rankingCategories |->
                                  rankingOrDefault(Val(subjectRankings), rankingCategories[i])
                                  - rankingOrDefault(Val(compRankings), rankingCategories[i])]
                      totalDiff == SumSeq(diffs)
                  IN  RAdd(Rat(totalAdjustment(p), 100),
                           RMul(Rat(totalDiff, Len(rankingCategories)), Rat(1, 100)))

getStoreAdjustment(p, storeId) ==
    IF ~IsSome(p.subjectStore) \/ storeId = Val(p.subjectStore) THEN RInt(0)
    ELSE LET subjectRankings == p.storeRankings[Val(p.subjectStore)]
             compRankings == p.storeRankings[storeId]
         IN  IF ~IsSome(subjectRankings) \/ ~IsSome(compRankings)
             THEN Rat(totalAdjustment(p), 100)
             ELSE LET diffs == [i \in DOMAIN rankingCategories |->
                                  rankingOrDefault(Val(subjectRankings), rankingCategories[i])
                                  - rankingOrDefault(Val(compRankings), rankingCategories[i])]
                      totalDiff == SumSeq(diffs)
                  IN  RAdd(Rat(totalAdjustment(p), 100),
                           RMul(Rat(totalDiff, Len(rankingCategories)), Rat(1, 100)))

----------------------------------------------------------------------------
(* groupedData: filtering and grouping *)

\* a value that JavaScript treats as true: present and not 0
Truthy(x) == IsSome(x) /\ Val(x) # 0

\* String.prototype.replace with a pattern without the g flag: the first match only
RECURSIVE RemoveFirst(_, _)
RemoveFirst(s, drop) ==
    IF s = <<>> THEN <<>>
    ELSE IF Head(s) \in drop THEN Tail(s)
    ELSE <<Head(s)>> \o RemoveFirst(Tail(s), drop)

\* normalizeSize with patterns that replace the first match only
normalizeSizeFirstMatch(size) ==
    RemoveFirst(RemoveFirst(toLowerCase(size), {" ", "\t"}), {"'"})

normalizeSize(size) ==
    RemoveChars(RemoveChars(toLowerCase(size), {" ", "\t"}), {"'"})

allowedSizes(p) == {normalizeSize(p.selectedSizes[i]) : i \in DOMAIN p.selectedSizes}

\* record.size || ''
recordSize(record) == IF IsSome(record.size) THEN Val(record.size) ELSE <<>>

\* the filter on the size label as written, not normalized
passesSizeFilterRaw(allowed, record) == recordSize(record) \in allowed

\* allowedSizes.has(normalizedSize)
passesSizeFilter(allowed, record) == normalizeSize(recordSize(record)) \in allowed

groupKey(p, record) == recordSize(record) \o <<"|">> \o getFeatureCode(p, record)

\* the records that reach the groups map, each with its group key
RECURSIVE keyedFrom(_, _, _)
keyedFrom(p, allowed, records) ==
    IF records = <<>> THEN <<>>
    ELSE IF passesSizeFilter(allowed, Head(records))
         THEN <<[key |-> groupKey(p, Head(records)), record |-> Head(records)]>>
              \o keyedFrom(p, allowed, Tail(records))
         ELSE keyedFrom(p, allowed, Tail(records))

keyedRecords(p) == keyedFrom(p, allowedSizes(p), p.rateRecords)

\* Object.entries(groups): the keys in insertion order
groupKeys(keyed) == Distinct([i \in DOMAIN keyed |-> keyed[i].key], {})

\* groups[key][storeId]
storeRecords(keyed, key, storeId) ==
    LET mine == SelectSeq(keyed, LAMBDA e : e.key = key /\ e.record.storeId = storeId)
    IN  [i \in DOMAIN mine |-> mine[i].record]

\* Object.entries(groups[key]): integer keys come in ascending order
groupStoreIds(keyed, key) ==
    Ascending({keyed[i].record.storeId : i \in {k \in DOMAIN keyed : keyed[k].key = key}})

\* the records of the first store of the group alone
allGroupRecordsFirstStore(keyed, key) ==
    storeRecords(keyed, key, groupStoreIds(keyed, key)[1])

\* Object.values(storeRecords).flat()
allGroupRecords(keyed, key) ==
    LET flatIds == groupStoreIds(keyed, key)
    IN  Flat([q \in DOMAIN flatIds |-> storeRecords(keyed, key, flatIds[q])])

----------------------------------------------------------------------------
(* groupedData: averages *)

\* the mean that is 0 over no price
meanZeroWhenEmpty(prices) ==
    IF Len(prices) > 0 THEN Some(Rat(SumSeq(prices), Len(prices))) ELSE Some(RInt(0))

mean(prices) ==
    IF Len(prices) > 0 THEN Some(Rat(SumSeq(prices), Len(prices))) ELSE None

\* the two means over the records already filtered by date
averagesOf(filtered) ==
    LET walkInRecs == SelectSeq(filtered, LAMBDA r : Truthy(r.walkInPrice))
        onlineRecs == SelectSeq(filtered, LAMBDA r : Truthy(r.onlinePrice))
    IN  [inStore |-> mean([i \in DOMAIN walkInRecs |-> Val(walkInRecs[i].walkInPrice)]),
         asking |-> mean([i \in DOMAIN onlineRecs |-> Val(onlineRecs[i].onlinePrice)])]

calcAverages(records, startDate) ==
    averagesOf(SelectSeq(records, LAMBDA r : IsSome(r.date) /\ Val(r.date) >= startDate))

\* t<N>Start at clock value t
windowStart(t, w) == t - w

\* asking ? asking * (1 + adjustment) : null
adjustedAsking(asking, adjustment) ==
    IF IsSome(asking) /\ Val(asking)[1] # 0
    THEN Some(RMul(Val(asking), RAdd(RInt(1), adjustment)))
    ELSE None

----------------------------------------------------------------------------
(* groupedData: group ordering *)

\* parseFloat(parts[0]) * parseFloat(parts[1]): NaN when either is NaN
parsedProduct(first, second) ==
    IF IsSome(first) /\ IsSome(second) THEN Some(Val(first) * Val(second)) ELSE None

\* parseFloat(parts[0]) || 0
parsedOrZero(first) == IF IsSome(first) THEN first ELSE Some(0)

\* the body of the try block, on the parts of the label
parsedParts(parts) ==
    IF Len(parts) >= 2
    THEN parsedProduct(parseFloat(parts[1]), parseFloat(parts[2]))
    ELSE parsedOrZero(parseFloat(parts[1]))

parseSize(sizeStr) ==
    parsedParts(SplitWs(RemoveChars(ReplaceChar(toLowerCase(sizeStr), "x", " "), {"'"}),
                        <<>>, FALSE))

\* parseSize(a.size) - parseSize(b.size): NaN when either is NaN
sizeDifference(pa, pb) ==
    IF IsSome(pa) /\ IsSome(pb) THEN Some(Val(pa) - Val(pb)) ELSE None

\* if (sizeCompare !== 0) return sizeCompare; return localeCompare(...)
sizeThenCode(sizeCompare, a, b) ==
    IF ~IsSome(sizeCompare) \/ Val(sizeCompare) # 0 THEN sizeCompare
    ELSE Some(localeCompare(a.featureCode, b.featureCode))

\* the comparator of result.sort: a number, or None for NaN
groupCompare(a, b) ==
    sizeThenCode(sizeDifference(parseSize(a.size), parseSize(b.size)), a, b)

\* the comparator without the precedence of the subject store
storeCompareDistanceOnly(a, b) == Some(a.distance - b.distance)

\* the comparator of storeData.sort
storeCompare(a, b) ==
    IF a.isSubject THEN Some(-1)
    ELSE IF b.isSubject THEN Some(1)
    ELSE Some(a.distance - b.distance)

----------------------------------------------------------------------------
(* Array.prototype.sort *)

\* the call of the comparison function handed to sort
compare(comparefn, a, b) ==
    IF comparefn = "result" THEN groupCompare(a, b) ELSE storeCompare(a, b)

\* SortCompare: a comparator result that is NaN counts as +0; the sign
Sign(c) == IF ~IsSome(c) THEN 0 ELSE IF Val(c) < 0 THEN -1 ELSE IF Val(c) > 0 THEN 1 ELSE 0

\* ECMAScript "consistent comparison function", on the signs sg of the
\* comparisons of the elements at the positions D (an element is not
\* compared with itself)
ConsistentSigns(D, sg) ==
    /\ \A ci, cj \in D : ci # cj => sg[ci, cj] = -sg[cj, ci]
    /\ \A ci, cj, ck \in D : (ci # cj /\ cj # ck /\ ci # ck) =>
          /\ (sg[ci, cj] = 0 /\ sg[cj, ck] = 0) => sg[ci, ck] = 0
          /\ (sg[ci, cj] < 0 /\ sg[cj, ck] < 0) => sg[ci, ck] < 0
          /\ (sg[ci, cj] < 0 /\ sg[cj, ck] = 0) => sg[ci, ck] < 0
          /\ (sg[ci, cj] = 0 /\ sg[cj, ck] < 0) => sg[ci, ck] < 0

ConsistentComparator(cseq, comparefn) ==
    ConsistentSigns(DOMAIN cseq,
                    [ci \in DOMAIN cseq, cj \in DOMAIN cseq |->
                       Sign(compare(comparefn, cseq[ci], cseq[cj]))])

InsertAt(sorted, x, pos) ==
    SubSeq(sorted, 1, pos - 1) \o <<x>> \o SubSeq(sorted, pos, Len(sorted))

\* x goes in front of the first of the positions it sorts before
InsertBefore(sorted, x, before) ==
    IF before = {} THEN Append(sorted, x)
    ELSE InsertAt(sorted, x, CHOOSE ik \in before : \A im \in before : ik <= im)

\* stable insertion of x in front of the first element it sorts before
InsertStable(sorted, x, comparefn) ==
    InsertBefore(sorted, x,
                 {ik \in DOMAIN sorted : Sign(compare(comparefn, x, sorted[ik])) < 0})

StableSort(sseq, comparefn) ==
    LET sortedPrefix[m \in 0..Len(sseq)] ==
            IF m = 0 THEN <<>> ELSE InsertStable(sortedPrefix[m - 1], sseq[m], comparefn)
    IN  sortedPrefix[Len(sseq)]

Reorderings(rseq) ==
    LET rn == Len(rseq)
        P == {rp \in [1..rn -> 1..rn] : \A ri, rj \in 1..rn : rp[ri] = rp[rj] => ri = rj}
    IN  {[ri \in 1..rn |-> rseq[rp[ri]]] : rp \in P}

\* the results sort may return: the stable sorted order for a consistent
\* comparator, an implementation-defined order of the same elements
\* otherwise
SortOutcomes(s, comparefn) ==
    UNION {IF ConsistentComparator(arr, comparefn) THEN {StableSort(arr, comparefn)}
           ELSE Reorderings(arr)
             : arr \in {s}}

----------------------------------------------------------------------------
(* groupedData: rows, groups and the report *)

\* selectedStores.find(s => s.storeId === storeId)
findStore(p, storeId) ==
    LET found == {i \in DOMAIN p.selectedStores : p.selectedStores[i].storeId = storeId}
    IN  IF found = {} THEN None
        ELSE Some(p.selectedStores[CHOOSE i \in found : \A j \in found : i <= j])

\* the object literal returned for one store of a group
storeEntry(storeId, store, isSubject, adjustment, t12, t6, t3, t1, count) ==
    [storeId |-> storeId,
     distance |-> IF IsSome(store) THEN Val(store).distance ELSE 0,
     isSubject |-> isSubject,
     t12Asking |-> t12.asking,
     t12AskingAdj |-> adjustedAsking(t12.asking, adjustment),
     t12InStore |-> t12.inStore,
     t6Asking |-> t6.asking,
     t6AskingAdj |-> adjustedAsking(t6.asking, adjustment),
     t6InStore |-> t6.inStore,
     t3Asking |-> t3.asking,
     t3AskingAdj |-> adjustedAsking(t3.asking, adjustment),
     t3InStore |-> t3.inStore,
     t1Asking |-> t1.asking,
     t1AskingAdj |-> adjustedAsking(t1.asking, adjustment),
     t1InStore |-> t1.inStore,
     adjustment |-> adjustment,
     recordCount |-> count]

storeRow(p, records, storeId) ==
    storeEntry(storeId, findStore(p, storeId),
               IsSome(p.subjectStore) /\ Val(p.subjectStore) = storeId,
               getStoreAdjustment(p, storeId),
               calcAverages(records, windowStart(p.now, 12)),
               calcAverages(records, windowStart(p.now, 6)),
               calcAverages(records, windowStart(p.now, 3)),
               calcAverages(records, windowStart(p.now, 1)),
               Len(records))

\* Object.entries(storeRecords).map(...)
RECURSIVE storeRows(_, _, _, _)
storeRows(p, keyed, key, rowIds) ==
    IF rowIds = <<>> THEN <<>>
    ELSE <<storeRow(p, storeRecords(keyed, key, Head(rowIds)), Head(rowIds))>>
         \o storeRows(p, keyed, key, Tail(rowIds))

storeData(p, keyed, key) == storeRows(p, keyed, key, groupStoreIds(keyed, key))

\* the count of the records that passed the size filter
totalRecordsFiltered(p, keyed) == Len(keyed)

\* const totalRecords = rateRecords.length
totalRecords(p, keyed) == Len(p.rateRecords)

\* (groupRecordCount / totalRecords) * 100
marketShare(groupRecordCount, total) == Rat(groupRecordCount * 100, total)

\* the object literal pushed for one group
groupEntry(size, featureCode, rows, t12Avg, t6Avg, t3Avg, t1Avg, share) ==
    [size |-> size,
     featureCode |-> featureCode,
     stores |-> rows,
     averages |-> [t12Asking |-> t12Avg.asking, t12AskingAdj |-> None,
                   t12InStore |-> t12Avg.inStore,
                   t6Asking |-> t6Avg.asking, t6AskingAdj |-> None,
                   t6InStore |-> t6Avg.inStore,
                   t3Asking |-> t3Avg.asking, t3AskingAdj |-> None,
                   t3InStore |-> t3Avg.inStore,
                   t1Asking |-> t1Avg.asking, t1AskingAdj |-> None,
                   t1InStore |-> t1Avg.inStore],
     marketShare |-> share]

groupFrom(p, keyed, keyParts, rows, pooled) ==
    groupEntry(keyParts[1], keyParts[2], rows,
               calcAverages(pooled, windowStart(p.now, 12)),
               calcAverages(pooled, windowStart(p.now, 6)),
               calcAverages(pooled, windowStart(p.now, 3)),
               calcAverages(pooled, windowStart(p.now, 1)),
               marketShare(Len(pooled), totalRecords(p, keyed)))

\* the GroupedData entries the callback may push for one key
groupOutcomes(p, keyed, key) ==
    {groupFrom(p, keyed, SplitChar(key, "|", <<>>), rows, allGroupRecords(keyed, key))
       : rows \in SortOutcomes(storeData(p, keyed, key), "storeData")}

\* the unsorted result arrays the callback may build, group by group
RECURSIVE resultOutcomes(_, _, _)
resultOutcomes(p, keyed, keys) ==
    IF keys = <<>> THEN {<<>>}
    ELSE {<<g>> \o rest : g \in groupOutcomes(p, keyed, Head(keys)),
                          rest \in resultOutcomes(p, keyed, Tail(keys))}

\* the values one run of the useMemo callback may return for the inputs p
groupedDataOutcomes(p) ==
    IF Len(p.rateRecords) = 0 THEN {<<>>}
    ELSE UNION {UNION {SortOutcomes(result, "result")
                         : result \in resultOutcomes(p, keyed, groupKeys(keyed))}
                  : keyed \in {keyedRecords(p)}}

----------------------------------------------------------------------------
(* Bounds and input domains *)

\* the clock value of the initial state
Now0 == 20

\* how far the clock advances
MaxTicks == 1

\* the most rate records under each specification
MaxFeatureRecords == 1

MaxAdjustRecords == 2

MaxAverageRecords == 2

MaxGroupRecords == 3

MaxOrderRecords == 3

MaxDistanceRecords == 3

MaxPooledRecords == 3

MaxClockRecords == 2

MaxSparseRecords == 2

Stores == {1, 2, 3, 4}

\* a ground level, non-climate 10x10 observation of store 1, one month old
BaseRecord ==
    [storeId |-> 1, size |-> Some(S10x10),
     driveUp |-> FALSE, elevator |-> FALSE, outdoorAccess |-> FALSE,
     climateControlled |-> FALSE, humidityControlled |-> FALSE,
     date |-> Some(Now0 - 1), walkInPrice |-> None, onlinePrice |-> Some(100)]

DriveUpClimate(r) == [r EXCEPT !.driveUp = TRUE, !.climateControlled = TRUE]

\* every combination of the five feature flags
FeatureRecords ==
    {[BaseRecord EXCEPT !.driveUp = f[1], !.elevator = f[2], !.outdoorAccess = f[3],
                        !.climateControlled = f[4], !.humidityControlled = f[5]]
       : f \in [1..5 -> BOOLEAN]}

CodeA == <<"A">>

CodeZ == <<"Z">>

Entry(t, c) == [originalTag |-> t, code |-> c]

FeatureLists ==
    {<<>>,
     <<Entry("Drive-Up / Climate Controlled", CodeA)>>,
     <<Entry("Drive-Up / Climate Controlled", CodeZ),
       Entry("Drive-Up / Climate Controlled", CodeA)>>,
     <<Entry("drive-up / climate controlled", CodeA),
       Entry("Outdoor / Humidity Controlled", CodeZ)>>,
     <<Entry("Ground Level / Non-Climate", CodeZ),
       Entry("Elevator / Humidity Controlled", CodeA)>>,
     <<Entry("Elevator / Climate Controlled", CodeA),
       Entry("Outdoor / Non-Climate", DU),
       Entry("Drive-Up / Non-Climate", CodeZ)>>}

\* store 1 (S) asks 150 one month ago; store 2 (A) asks 100 two months ago
\* and 120 five months ago
AdjustRecords ==
    {DriveUpClimate([BaseRecord EXCEPT !.storeId = 1, !.onlinePrice = Some(150),
                                       !.date = Some(Now0 - 1)]),
     DriveUpClimate([BaseRecord EXCEPT !.storeId = 2, !.onlinePrice = Some(100),
                                       !.date = Some(Now0 - 2)]),
     DriveUpClimate([BaseRecord EXCEPT !.storeId = 2, !.onlinePrice = Some(120),
                                       !.date = Some(Now0 - 5)])}

Uniform(score) == [c \in Range(rankingCategories) |-> Some(score)]

RankingChoices ==
    {Uniform(5), Uniform(8), Uniform(0),
     [c \in Range(rankingCategories) |-> IF c = "Location" THEN Some(9) ELSE None]}

Factors(a, b, c) == [captiveMarketPremium |-> a, lossToLease |-> b, ccAdj |-> c]

FactorChoices ==
    {Factors(None, None, None), Factors(Some(3), Some(2), None),
     Factors(Some(4), Some(2), Some(1))}

\* (online price, walk-in price) pairs
PricePairs ==
    {<<None, None>>, <<Some(0), Some(3)>>, <<Some(-2), None>>, <<Some(2), Some(0)>>}

AverageRecords ==
    {[BaseRecord EXCEPT !.storeId = s, !.date = d,
                        !.onlinePrice = pp[1], !.walkInPrice = pp[2]]
       : s \in {1, 2},
         d \in {Some(Now0 - 1), Some(Now0 - 6), Some(Now0 - 12), None},
         pp \in PricePairs}

S10X10Trailing == <<"1","0","X","1","0"," ">>

S10x10Leading == <<" ","1","0","x","1","0">>

S10x10Feet == <<"1","0","'","x","1","0","'">>

GroupRecords ==
    {BaseRecord,
     [BaseRecord EXCEPT !.size = Some(S10X10Trailing)],
     [BaseRecord EXCEPT !.storeId = 2],
     DriveUpClimate(BaseRecord),
     [BaseRecord EXCEPT !.size = Some(S20x20)],
     [BaseRecord EXCEPT !.size = None]}

OrderRecords ==
    {[r EXCEPT !.size = Some(z)]
       : r \in {BaseRecord, DriveUpClimate(BaseRecord)},
         z \in {S10x10, S10x10Leading, S10x10Feet, S5x5}}

\* 10x10 observations of the stores 1 to 4
DistanceRecords == {[BaseRecord EXCEPT !.storeId = s] : s \in 1..4}

Store(id, d) == [storeId |-> id, distance |-> d]

\* store lists: the initial one, one with equal distances and without store
\* 1, one in another order with store 3 twice
StoreLists ==
    {<<Store(1, 0), Store(2, 3), Store(3, 1)>>,
     <<Store(2, 2), Store(3, 2)>>,
     <<Store(3, 4), Store(1, 5), Store(2, 1), Store(3, 0)>>}

Priced(id, online, walkIn, d) ==
    [BaseRecord EXCEPT !.storeId = id, !.onlinePrice = online, !.walkInPrice = walkIn,
                       !.date = d]

\* observations of two stores of one group: recent and six months old,
\* with a price of 0, without a date, with and without a walk-in price
PooledRecords ==
    {Priced(1, Some(2), Some(8), Some(Now0 - 1)),
     Priced(1, Some(4), None, Some(Now0 - 1)),
     Priced(2, Some(12), Some(2), Some(Now0 - 1)),
     Priced(2, Some(0), Some(5), Some(Now0 - 1)),
     Priced(2, Some(6), None, Some(Now0 - 6)),
     Priced(1, Some(9), Some(9), None)}

\* observations of one store dated one, three and twelve months before the
\* initial clock value, and one without a date
ClockRecords ==
    {Priced(1, Some(100), None, Some(Now0 - 1)),
     Priced(1, Some(60), Some(50), Some(Now0 - 3)),
     Priced(1, Some(80), None, Some(Now0 - 12)),
     Priced(1, Some(70), None, None)}

\* observations with fields missing: the size, the date (a date that does
\* not parse is an Invalid Date like a missing one), either price, all of
\* them; a complete one; one of a store that is in no list
SparseRecords ==
    {BaseRecord,
     [BaseRecord EXCEPT !.size = None],
     [BaseRecord EXCEPT !.date = None, !.walkInPrice = Some(90)],
     [BaseRecord EXCEPT !.onlinePrice = None],
     [BaseRecord EXCEPT !.onlinePrice = None, !.walkInPrice = Some(90)],
     [BaseRecord EXCEPT !.storeId = 4, !.size = Some(S5x5)],
     [BaseRecord EXCEPT !.storeId = 4, !.date = None, !.onlinePrice = None]}

----------------------------------------------------------------------------
(* The component as a state machine *)

----------------------------------------------------------------------------
(* The values of the wizard state and their JSON text *)

\* JavaScript values: null, undefined, numbers and strings
Null == <<"null">>
Undefined == <<"undefined">>
Num(n) == <<"number", n>>
Str(s) == <<"string", s>>

\* the keys of window.localStorage the program uses
STORAGE_KEY == "rca-wizard-state"
KEEPALIVE_KEY == "app-keepalive"
ACTIVITY_KEY == "app-last-activity"
StorageKeys == {STORAGE_KEY, KEEPALIVE_KEY, ACTIVITY_KEY}

STORAGE_VERSION == "1.0"

\* a storage with no entry
EmptyStorage == [k \in StorageKeys |-> None]

\* no call of the storage layer has completed yet
NoCompletion == [call |-> "", arg |-> Undefined, threw |-> FALSE, value |-> Undefined]

\* history: neither saveWizardState nor clearWizardState has been called
NoSave == <<"none">>

\* the properties of the wizard state, in the order the hook creates them
StateKeys == <<"currentStep", "subjectStore", "searchCriteria">>

\* the state the hook starts from when nothing is restored
initialState ==
    [k \in Range(StateKeys) |->
        IF k = "currentStep" THEN Num(1)
        ELSE IF k = "subjectStore" THEN Null
        ELSE Undefined]

NoRankings == [s \in Stores |-> None]

NoFactors == Factors(None, None, None)

\* the report component before any observation is loaded
InitReport ==
    /\ rateRecords = <<>>
    /\ featureCodes = <<>>
    /\ storeRankings = NoRankings
    /\ adjustmentFactors = NoFactors
    /\ subjectStore = None
    /\ selectedStores = <<[storeId |-> 1, distance |-> 0],
                          [storeId |-> 2, distance |-> 3],
                          [storeId |-> 3, distance |-> 1]>>
    /\ selectedSizes = DEFAULT_UNIT_SIZES
    /\ now = Now0
    /\ computedAt = Now0
    /\ groupedData = <<>>

\* no label has been normalised
InitLabel ==
    /\ sizeLabel = <<>>
    /\ normalizedSize = None

\* a fresh browser profile: nothing stored, the page at step 1
InitPage ==
    /\ localStorage = EmptyStorage
    /\ storageAvailable = TRUE
    /\ clock = 0
    /\ completion = NoCompletion
    /\ wizardState = initialState
    /\ stepNumber = 1
    /\ lastSave = NoSave

\* keepalive.ts as the module is loaded: no timer
InitKeepalive ==
    /\ keepaliveInterval = None
    /\ timers = {}
    /\ timerIds = 0
    /\ keepaliveWrites = 0
    /\ activityListeners = {}

Init == InitReport /\ InitLabel /\ InitPage /\ InitKeepalive

\* the inputs of the useMemo callback
Props ==
    [rateRecords |-> rateRecords, featureCodes |-> featureCodes,
     storeRankings |-> storeRankings, adjustmentFactors |-> adjustmentFactors,
     subjectStore |-> subjectStore, selectedStores |-> selectedStores,
     selectedSizes |-> selectedSizes, now |-> now]

\* a dependency of the useMemo changed to give the inputs p: the callback
\* runs again
Recompute(p) ==
    /\ computedAt' = p.now
    /\ groupedData' \in groupedDataOutcomes(p)
    /\ UNCHANGED <<labelVars, activityListeners, storageVars, keepaliveVars>>

\* the rate records prop receives one more observation
loadRateRecord(universe, max) ==
    /\ Len(rateRecords) < max
    /\ \E r \in universe :
          /\ rateRecords' = Append(rateRecords, r)
          /\ \E p \in {[Props EXCEPT !.rateRecords = Append(rateRecords, r)]} : Recompute(p)
    /\ UNCHANGED <<featureCodes, storeRankings, adjustmentFactors, subjectStore,
                   selectedStores, selectedSizes, now>>

\* the feature code list prop changes
updateFeatureCode(lists) ==
    /\ \E l \in lists \ {featureCodes} :
          /\ featureCodes' = l
          /\ \E p \in {[Props EXCEPT !.featureCodes = l]} : Recompute(p)
    /\ UNCHANGED <<rateRecords, storeRankings, adjustmentFactors, subjectStore,
                   selectedStores, selectedSizes, now>>

\* the rankings of one store are entered
updateStoreRankings(ids, choices) ==
    /\ \E id \in ids, rk \in choices :
          /\ storeRankings[id] # Some(rk)
          /\ storeRankings' = [storeRankings EXCEPT ![id] = Some(rk)]
          /\ \E p \in {[Props EXCEPT !.storeRankings[id] = Some(rk)]} : Recompute(p)
    /\ UNCHANGED <<rateRecords, featureCodes, adjustmentFactors, subjectStore,
                   selectedStores, selectedSizes, now>>

\* the adjustment factors are entered
updateAdjustmentFactors(choices) ==
    /\ \E f \in choices \ {adjustmentFactors} :
          /\ adjustmentFactors' = f
          /\ \E p \in {[Props EXCEPT !.adjustmentFactors = f]} : Recompute(p)
    /\ UNCHANGED <<rateRecords, featureCodes, storeRankings, subjectStore,
                   selectedStores, selectedSizes, now>>

\* a subject store is selected
selectSubjectStore(ids) ==
    /\ \E id \in ids :
          /\ subjectStore # Some(id)
          /\ subjectStore' = Some(id)
          /\ \E p \in {[Props EXCEPT !.subjectStore = Some(id)]} : Recompute(p)
    /\ UNCHANGED <<rateRecords, featureCodes, storeRankings, adjustmentFactors,
                   selectedStores, selectedSizes, now>>

\* the stores of the analysis are selected
selectStoresForAnalysis(lists) ==
    /\ \E l \in lists \ {selectedStores} :
          /\ selectedStores' = l
          /\ \E p \in {[Props EXCEPT !.selectedStores = l]} : Recompute(p)
    /\ UNCHANGED <<rateRecords, featureCodes, storeRankings, adjustmentFactors,
                   subjectStore, selectedSizes, now>>

\* Array.prototype.includes
includes(arr, x) == \E i \in DOMAIN arr : arr[i] = x

toggleSize(sizes) ==
    /\ \E size \in sizes :
          \E next \in {IF includes(selectedSizes, size)
                       THEN SelectSeq(selectedSizes, LAMBDA z : z # size)
                       ELSE Append(selectedSizes, size)} :
              /\ selectedSizes' = next
              /\ \E p \in {[Props EXCEPT !.selectedSizes = next]} : Recompute(p)
    /\ UNCHANGED <<rateRecords, featureCodes, storeRankings, adjustmentFactors,
                   subjectStore, selectedStores, now>>

\* the user leaves step 10 and comes back: the component is mounted again,
\* its selected sizes start from the default and the callback runs at the
\* time of the mount
remount ==
    /\ selectedSizes' = DEFAULT_UNIT_SIZES
    /\ \E p \in {[Props EXCEPT !.selectedSizes = DEFAULT_UNIT_SIZES]} : Recompute(p)
    /\ UNCHANGED <<rateRecords, featureCodes, storeRankings, adjustmentFactors,
                   subjectStore, selectedStores, now>>

\* time passes; no dependency of the useMemo changes, the report stays
Tick ==
    /\ now < Now0 + MaxTicks
    /\ now' = now + 1
    /\ UNCHANGED <<rateRecords, featureCodes, storeRankings, adjustmentFactors,
                   subjectStore, selectedStores, selectedSizes, computedAt,
                   groupedData, labelVars, activityListeners, storageVars, keepaliveVars>>

NextFeature ==
    \/ loadRateRecord(FeatureRecords, MaxFeatureRecords)
    \/ updateFeatureCode(FeatureLists)

SpecFeature == Init /\ [][NextFeature]_vars

NextAdjust ==
    \/ loadRateRecord(AdjustRecords, MaxAdjustRecords)
    \/ updateStoreRankings({1, 2}, RankingChoices)
    \/ updateAdjustmentFactors(FactorChoices)
    \/ selectSubjectStore({1, 2})

SpecAdjust == Init /\ [][NextAdjust]_vars

NextAverage ==
    \/ loadRateRecord(AverageRecords, MaxAverageRecords)
    \/ updateAdjustmentFactors({Factors(Some(5), None, None)})
    \/ selectSubjectStore({1})
    \/ Tick

SpecAverage == Init /\ [][NextAverage]_vars

NextGroup ==
    \/ loadRateRecord(GroupRecords, MaxGroupRecords)
    \/ toggleSize({S20x20})

SpecGroup == Init /\ [][NextGroup]_vars

NextOrder ==
    \/ loadRateRecord(OrderRecords, MaxOrderRecords)
    \/ updateFeatureCode({<<>>, <<Entry("Ground Level / Non-Climate", CodeA)>>})

SpecOrder == Init /\ [][NextOrder]_vars

NextDistance ==
    \/ loadRateRecord(DistanceRecords, MaxDistanceRecords)
    \/ selectSubjectStore({2, 4})
    \/ selectStoresForAnalysis(StoreLists)

SpecDistance == Init /\ [][NextDistance]_vars

NextPooled ==
    \/ loadRateRecord(PooledRecords, MaxPooledRecords)
    \/ selectSubjectStore({1})
    \/ updateAdjustmentFactors({Factors(Some(10), None, None)})

SpecPooled == Init /\ [][NextPooled]_vars

NextClock ==
    \/ loadRateRecord(ClockRecords, MaxClockRecords)
    \/ toggleSize({S20x20})
    \/ Tick
    \/ remount

SpecClock == Init /\ [][NextClock]_vars

NextSparse ==
    \/ loadRateRecord(SparseRecords, MaxSparseRecords)
    \/ selectSubjectStore({1, 4})
    \/ updateStoreRankings({1}, {Uniform(8)})
    \/ updateAdjustmentFactors({Factors(None, Some(5), None)})

SpecSparse == Init /\ [][NextSparse]_vars

----------------------------------------------------------------------------
(* normalizeSize on its own: labels drawn from a bounded set *)

MaxLabelLen == 3

\* the characters of the labels: digits, the separator in both cases, the
\* two whitespace characters and the apostrophe
LabelChars == {"1", "0", "x", "X", " ", "\t", "'"}

S10x10Apostrophe == S10x10 \o <<"'">>

\* every label of at most MaxLabelLen characters, and the labels of a
\* 10 by 10 unit as the sources write them
Labels ==
    UNION {[1..n -> LabelChars] : n \in 0..MaxLabelLen}
        \cup {S10x10, S10X10Trailing, S10x10Leading, S10x10Feet, S10x10Apostrophe}

InitNormalize ==
    /\ InitReport
    /\ sizeLabel \in Labels
    /\ normalizedSize = None
    /\ InitPage
    /\ InitKeepalive

\* selectedSizes.map(s => normalizeSize(s)): the label is normalised
normalize ==
    /\ normalizedSize = None
    /\ normalizedSize' = Some(normalizeSize(sizeLabel))
    /\ UNCHANGED <<sizeLabel, reportVars, storageVars, keepaliveVars,
                   activityListeners>>

\* the normalised label is itself handed to normalizeSize
normalizeAgain ==
    /\ IsSome(normalizedSize)
    /\ Val(normalizedSize) # sizeLabel
    /\ sizeLabel' = Val(normalizedSize)
    /\ normalizedSize' = Some(normalizeSize(Val(normalizedSize)))
    /\ UNCHANGED <<reportVars, storageVars, keepaliveVars, activityListeners>>

NextNormalize ==
    \/ normalize
    \/ normalizeAgain

SpecNormalize == InitNormalize /\ [][NextNormalize]_vars

----------------------------------------------------------------------------
(* wizardStorage: the saved snapshot of the wizard state *)

MaxWeeks == 2

\* 7 * 24 * 60 * 60 * 1000 milliseconds, in minutes as the clock counts
sevenDaysInMs == 7 * 24 * 60

\* the instants at which something happens: the start of a week and one
\* minute later
Instants == {w * sevenDaysInMs + e : w \in 0..MaxWeeks, e \in {0, 1}}

Bool(b) == <<"boolean", b>>
Obj(o) == <<"object", o>>

\* the numbers and strings that occur in a snapshot: the instants, and the
\* steps the wizard is opened at or navigates to
JSONNumbers == Instants \cup (0 - 3)..13
JSONStrings == {STORAGE_VERSION, "0.9", "Austin", "null"}

\* the JSON text of a value with strings written without quotes
literalUnquoted(v) ==
    IF v[1] = "number" THEN ToString(v[2])
    ELSE IF v[1] = "string" THEN v[2]
    ELSE "null"

\* the JSON text of null, a number or a string
literal(v) ==
    IF v[1] = "number" THEN ToString(v[2])
    ELSE IF v[1] = "string" THEN "\"" \o v[2] \o "\""
    ELSE "null"

\* the value a JSON literal stands for
parseLiteral(text) ==
    IF text = "null" THEN Null
    ELSE IF \E n \in JSONNumbers : ToString(n) = text
         THEN Num(CHOOSE n \in JSONNumbers : ToString(n) = text)
    ELSE Str(CHOOSE x \in JSONStrings : literal(Str(x)) = text)

\* the properties JSON.stringify writes: those whose value is not undefined
definedKeys(state) == SelectSeq(StateKeys, LAMBDA k : state[k] # Undefined)

\* the members of the JSON object of a wizard state, each a key and the
\* text of its value
stringifyMembers(state, keys) ==
    [i \in DOMAIN keys |-> <<keys[i], literal(state[keys[i]])>>]

\* JSON.stringify of a StoredState
JSONstringify(storedState) ==
    [version |-> literal(storedState.version),
     timestamp |-> literal(storedState.timestamp),
     state |-> stringifyMembers(storedState.state, definedKeys(storedState.state))]

\* reading a property of a parsed object: the value of its member, or
\* undefined when the text has no such member
property(text, k) ==
    IF \E i \in DOMAIN text : text[i][1] = k
    THEN parseLiteral(text[CHOOSE i \in DOMAIN text : text[i][1] = k][2])
    ELSE Undefined

\* JSON.parse of the text of a StoredState
JSONparse(text) ==
    [version |-> parseLiteral(text.version),
     timestamp |-> parseLiteral(text.timestamp),
     state |-> [k \in Range(StateKeys) |-> property(text.state, k)]]

setItem(store, key, value) == [store EXCEPT ![key] = Some(value)]

removeItem(store, key) == [store EXCEPT ![key] = None]

\* what a call leaves behind: its name, its argument, whether an exception
\* left it, and the value it returned
Completed(call, arg, threw, value) ==
    [call |-> call, arg |-> arg, threw |-> threw, value |-> value]

\* the storage after saveWizardState(state) at the instant at
saved(store, available, at, state) ==
    IF available
    THEN setItem(store, STORAGE_KEY,
                 JSONstringify([version |-> Str(STORAGE_VERSION),
                                timestamp |-> Num(at), state |-> state]))
    ELSE store

\* the storage after clearWizardState()
cleared(store, available) ==
    IF available THEN removeItem(store, STORAGE_KEY) ELSE store

\* loadWizardState that reports an expired snapshot without removing it
loadParsedKeepsExpired(store, parsed, at) ==
    IF parsed.version # Str(STORAGE_VERSION)
    THEN [value |-> Null, storage |-> cleared(store, TRUE)]
    ELSE IF at - parsed.timestamp[2] > sevenDaysInMs
    THEN [value |-> Null, storage |-> store]
    ELSE [value |-> Obj(parsed.state), storage |-> store]

\* loadWizardState once the stored text is parsed: the version check, then
\* the age check
loadParsed(store, parsed, at) ==
    IF parsed.version # Str(STORAGE_VERSION)
    THEN [value |-> Null, storage |-> cleared(store, TRUE)]
    ELSE IF at - parsed.timestamp[2] > sevenDaysInMs
    THEN [value |-> Null, storage |-> cleared(store, TRUE)]
    ELSE [value |-> Obj(parsed.state), storage |-> store]

\* the value loadWizardState() returns at the instant at, and the storage
\* it leaves
loaded(store, available, at) ==
    IF ~available \/ store[STORAGE_KEY] = None
    THEN [value |-> Null, storage |-> store]
    ELSE loadParsed(store, JSONparse(Val(store[STORAGE_KEY])), at)

\* the wizard states that are saved
Austin == [initialState EXCEPT !["currentStep"] = Num(3),
                               !["searchCriteria"] = Str("Austin")]
Subject2 == [initialState EXCEPT !["currentStep"] = Num(10),
                                 !["subjectStore"] = Num(2)]
NullText == [initialState EXCEPT !["currentStep"] = Num(2),
                                 !["searchCriteria"] = Str("null")]
WizardStates == {initialState, Austin, Subject2, NullText}

\* a snapshot as a build with the given storage version wrote it
Snapshot(version, at, state) ==
    JSONstringify([version |-> Str(version), timestamp |-> Num(at), state |-> state])

\* the profile holds nothing, a snapshot of the previous build, or a
\* snapshot of this build; the storage works or throws as availability says
Profile(availability) ==
    /\ InitReport
    /\ InitLabel
    /\ InitKeepalive
    /\ localStorage \in {EmptyStorage,
                         setItem(EmptyStorage, STORAGE_KEY, Snapshot("0.9", 0, Austin)),
                         setItem(EmptyStorage, STORAGE_KEY, Snapshot(STORAGE_VERSION, 0, Subject2))}
    /\ storageAvailable \in availability
    /\ clock = 0
    /\ completion = NoCompletion
    /\ wizardState = initialState
    /\ stepNumber = 1
    /\ lastSave = NoSave

\* a profile whose storage works
InitSnapshot == Profile({TRUE})

saveWizardState(states) ==
    /\ \E state \in states :
          /\ localStorage' = saved(localStorage, storageAvailable, clock, state)
          /\ lastSave' = <<"saved", state, clock>>
          /\ completion' = Completed("saveWizardState", Obj(state), FALSE, Undefined)
    /\ UNCHANGED <<storageAvailable, clock, wizardState, stepNumber,
                   reportVars, labelVars, activityListeners, keepaliveVars>>

loadWizardState ==
    /\ \E r \in {loaded(localStorage, storageAvailable, clock)} :
          /\ localStorage' = r.storage
          /\ completion' = Completed("loadWizardState", Undefined, FALSE, r.value)
    /\ UNCHANGED <<storageAvailable, clock, wizardState, stepNumber, lastSave,
                   reportVars, labelVars, activityListeners, keepaliveVars>>

clearWizardState ==
    /\ localStorage' = cleared(localStorage, storageAvailable)
    /\ lastSave' = <<"cleared">>
    /\ completion' = Completed("clearWizardState", Undefined, FALSE, Undefined)
    /\ UNCHANGED <<storageAvailable, clock, wizardState, stepNumber,
                   reportVars, labelVars, activityListeners, keepaliveVars>>

\* localStorage.getItem is not inside a try: its exception leaves the call
hasSavedState ==
    /\ completion' =
          IF storageAvailable
          THEN Completed("hasSavedState", Undefined, FALSE, Bool(localStorage[STORAGE_KEY] # None))
          ELSE Completed("hasSavedState", Undefined, TRUE, Undefined)
    /\ UNCHANGED <<localStorage, storageAvailable, clock, wizardState,
                   stepNumber, lastSave, reportVars, labelVars, activityListeners, keepaliveVars>>

getLastSavedTimestamp ==
    /\ completion' =
          IF ~storageAvailable \/ localStorage[STORAGE_KEY] = None
          THEN Completed("getLastSavedTimestamp", Undefined, FALSE, Null)
          ELSE Completed("getLastSavedTimestamp", Undefined, FALSE,
                         JSONparse(Val(localStorage[STORAGE_KEY])).timestamp)
    /\ UNCHANGED <<localStorage, storageAvailable, clock, wizardState,
                   stepNumber, lastSave, reportVars, labelVars, activityListeners, keepaliveVars>>

\* time passes up to the next instant at which something happens; no
\* interval timer is overdue
advance ==
    /\ \E t \in Instants :
          /\ t > clock
          /\ \A timer \in timers : t <= timer.due
          /\ clock' = t
    /\ UNCHANGED <<localStorage, storageAvailable, completion, wizardState,
                   stepNumber, lastSave, reportVars, labelVars, activityListeners, keepaliveVars>>

NextStorage ==
    \/ saveWizardState(WizardStates)
    \/ loadWizardState
    \/ clearWizardState
    \/ hasSavedState
    \/ getLastSavedTimestamp
    \/ advance

SpecStorage == InitSnapshot /\ [][NextStorage]_vars

----------------------------------------------------------------------------
(* keepalive.ts: the keepalive timer and the activity handler *)

MaxTimers == 3

MaxMinutes == 12

\* intervalMs = 5 * 60 * 1000, in minutes as the clock counts
DefaultIntervalMs == 5

\* the default interval and a shorter one given by the caller
IntervalChoices == {DefaultIntervalMs, 2}

\* keepaliveAction: the timestamp is written, or the exception of
\* localStorage.setItem is caught
keepaliveAction(store, available, at) ==
    IF available THEN setItem(store, KEEPALIVE_KEY, ToString(at)) ELSE store

\* the count of writes of 'app-keepalive' after one more keepaliveAction
counted(writes, available) == IF available THEN writes + 1 ELSE writes

\* window.clearInterval(id)
clearInterval(live, id) == {timer \in live : timer.id # id}

\* stopKeepalive that forgets the timer without clearing it
stoppedNotCleared(live, interval) == live

\* the timers after the body of stopKeepalive
stopped(live, interval) ==
    IF interval # None THEN clearInterval(live, Val(interval)) ELSE live

\* window.setInterval(keepaliveAction, intervalMs) called at the instant at
\* with the next timer id
setInterval(live, id, intervalMs, at) ==
    live \cup {[id |-> id, intervalMs |-> intervalMs, due |-> at + intervalMs]}

\* the body of startKeepalive
startKeepaliveCall(intervals) ==
    /\ timerIds < MaxTimers
    /\ \E intervalMs \in intervals :
          /\ timers' = setInterval(stopped(timers, keepaliveInterval),
                                   timerIds + 1, intervalMs, clock)
          /\ completion' = Completed("startKeepalive", Num(intervalMs), FALSE, Undefined)
    /\ keepaliveInterval' = Some(timerIds + 1)
    /\ timerIds' = timerIds + 1
    /\ localStorage' = keepaliveAction(localStorage, storageAvailable, clock)
    /\ keepaliveWrites' = counted(keepaliveWrites, storageAvailable)
    /\ UNCHANGED <<storageAvailable, clock, wizardState, stepNumber, lastSave,
                   reportVars, labelVars>>

\* the body of stopKeepalive
stopKeepaliveCall ==
    /\ timers' = stopped(timers, keepaliveInterval)
    /\ keepaliveInterval' = None
    /\ completion' = Completed("stopKeepalive", Undefined, FALSE, Undefined)
    /\ UNCHANGED <<localStorage, storageAvailable, clock, wizardState,
                   stepNumber, lastSave, timerIds, keepaliveWrites,
                   reportVars, labelVars>>

startKeepalive(intervals) ==
    /\ startKeepaliveCall(intervals)
    /\ UNCHANGED activityListeners

stopKeepalive ==
    /\ stopKeepaliveCall
    /\ UNCHANGED activityListeners

\* the earliest interval timer comes due: time has passed up to its due
\* instant, its callback keepaliveAction runs and the timer is set again
timerFires ==
    /\ \E timer \in timers :
          /\ \A other \in timers : timer.due <= other.due
          /\ timer.due <= MaxMinutes
          /\ clock' = timer.due
          /\ timers' = (timers \ {timer})
                          \cup {[timer EXCEPT !.due = timer.due + timer.intervalMs]}
          /\ localStorage' = keepaliveAction(localStorage, storageAvailable, timer.due)
    /\ keepaliveWrites' = counted(keepaliveWrites, storageAvailable)
    /\ UNCHANGED <<storageAvailable, completion, wizardState, stepNumber,
                   lastSave, keepaliveInterval, timerIds, reportVars, labelVars, activityListeners>>

\* mousedown, keydown, scroll or touchstart reaches the listener that
\* setupActivityTracking registered
handleActivity ==
    /\ localStorage' =
          IF storageAvailable
          THEN setItem(localStorage, ACTIVITY_KEY, ToString(clock))
          ELSE localStorage
    /\ completion' = Completed("handleActivity", Undefined, FALSE, Undefined)
    /\ UNCHANGED <<storageAvailable, clock, wizardState, stepNumber, lastSave,
                   reportVars, labelVars, activityListeners, keepaliveVars>>

\* a profile whose storage throws on every operation
InitUnavailable == Profile({FALSE})

NextUnavailable ==
    \/ saveWizardState(WizardStates)
    \/ loadWizardState
    \/ clearWizardState
    \/ hasSavedState
    \/ getLastSavedTimestamp
    \/ startKeepalive(IntervalChoices)
    \/ timerFires
    \/ handleActivity

SpecUnavailable == InitUnavailable /\ [][NextUnavailable]_vars

\* keepalive.ts on a profile whose storage works or throws
InitTimers == Profile(BOOLEAN)

NextKeepalive ==
    \/ startKeepalive(IntervalChoices)
    \/ stopKeepalive
    \/ timerFires
    \/ advance

SpecKeepalive == InitTimers /\ [][NextKeepalive]_vars

----------------------------------------------------------------------------
(* RCAStepPage: the wizard page, its automatic save and its reloads *)

MaxPageLoads == 3

\* WIZARD_STEPS.length: step 10 is the last step renderStep knows
WizardStepCount == 10

\* the values the search criteria take
CriteriaChoices == {Str("Austin"), Str("null")}

\* the page has been opened at step 1 on a fresh profile whose storage
\* works: the hook found nothing to restore and the mount effect started
\* the keepalive with its first write
InitMounted ==
    /\ InitReport
    /\ InitLabel
    /\ localStorage = keepaliveAction(EmptyStorage, TRUE, 0)
    /\ storageAvailable = TRUE
    /\ clock = 0
    /\ completion = Completed("startKeepalive", Num(DefaultIntervalMs), FALSE, Undefined)
    /\ wizardState = initialState
    /\ stepNumber = 1
    /\ lastSave = NoSave
    /\ keepaliveInterval = Some(1)
    /\ timers = setInterval({}, 1, DefaultIntervalMs, 0)
    /\ timerIds = 1
    /\ keepaliveWrites = 1
    /\ activityListeners = {1}

\* the state of the hook changes to next: the hook saves it
stateChange(call, next) ==
    /\ wizardState' = next
    /\ localStorage' = saved(localStorage, storageAvailable, clock, next)
    /\ lastSave' = <<"saved", next, clock>>
    /\ completion' = Completed(call, Undefined, FALSE, Undefined)

\* actions.updateSearchCriteria
updateSearchCriteria(choices) ==
    /\ \E criteria \in choices :
          /\ wizardState["searchCriteria"] # criteria
          /\ stateChange("updateSearchCriteria",
                         [wizardState EXCEPT !["searchCriteria"] = criteria])
    /\ UNCHANGED <<storageAvailable, clock, stepNumber, reportVars, labelVars, activityListeners,
                   keepaliveVars>>

\* navigate(`/rca/step/${step}`): the URL changes, the effect that follows
\* the URL calls actions.setStep when state.currentStep differs from the step
\* of the URL, and the changed state is saved
navigate(call, step) ==
    /\ stepNumber' = step
    /\ IF wizardState["currentStep"] # Num(step)
       THEN stateChange(call, [wizardState EXCEPT !["currentStep"] = Num(step)])
       ELSE /\ completion' = Completed(call, Undefined, FALSE, Undefined)
            /\ UNCHANGED <<wizardState, localStorage, lastSave>>
    /\ UNCHANGED <<storageAvailable, clock, reportVars, labelVars, activityListeners, keepaliveVars>>

Min(a, b) == IF a < b THEN a ELSE b

Max(a, b) == IF a > b THEN a ELSE b

\* Math.min(state.currentStep + 1, WIZARD_STEPS.length)
goToNextStep ==
    navigate("goToNextStep", Min(wizardState["currentStep"][2] + 1, WizardStepCount))

\* Math.max(state.currentStep - 1, 1)
goToPrevStep ==
    navigate("goToPrevStep", Max(wizardState["currentStep"][2] - 1, 1))

\* the state the hook starts from: the one loadWizardState returned, or the
\* initial state when it returned null
restoredState(value) == IF value = Null THEN initialState ELSE value[2]

\* window.location.reload() by the control named call, with the storage
\* store and the URL at step: the document and its timers are gone, the
\* page is mounted again, the hook takes what loadWizardState returns (kept
\* as the value of the completion), the mount effect starts the keepalive
\* and the state follows the step of the URL
reload(call, store, step, r) ==
    /\ keepaliveWrites < MaxPageLoads
    /\ completion' = Completed(call, Undefined, FALSE, r.value)
    /\ wizardState' = [restoredState(r.value) EXCEPT !["currentStep"] = Num(step)]
    /\ stepNumber' = step
    /\ IF restoredState(r.value)["currentStep"] # Num(step)
       THEN /\ localStorage' =
                  saved(keepaliveAction(r.storage, storageAvailable, clock),
                        storageAvailable, clock,
                        [restoredState(r.value) EXCEPT !["currentStep"] = Num(step)])
            /\ lastSave' =
                  <<"saved", [restoredState(r.value) EXCEPT !["currentStep"] = Num(step)], clock>>
       ELSE /\ localStorage' = keepaliveAction(r.storage, storageAvailable, clock)
            /\ lastSave' = IF store = localStorage THEN lastSave ELSE <<"cleared">>
    /\ keepaliveInterval' = Some(1)
    /\ timers' = setInterval({}, 1, DefaultIntervalMs, clock)
    /\ timerIds' = 1
    /\ keepaliveWrites' = counted(keepaliveWrites, storageAvailable)
    /\ UNCHANGED <<storageAvailable, clock, reportVars, labelVars, activityListeners>>

\* the header's New Analysis, confirmed in the dialog: clearWizardState(),
\* navigate('/rca/step/1'), window.location.reload()
handleNewAnalysis ==
    \E store \in {cleared(localStorage, storageAvailable)} :
        \E r \in {loaded(store, storageAvailable, clock)} :
            reload("handleNewAnalysis", store, 1, r)

\* the Start New Analysis button of step 10: window.location.reload()
startNewAnalysis ==
    /\ stepNumber = WizardStepCount
    /\ \E r \in {loaded(localStorage, storageAvailable, clock)} :
          reload("startNewAnalysis", localStorage, stepNumber, r)

NextPage ==
    \/ updateSearchCriteria(CriteriaChoices)
    \/ goToNextStep
    \/ goToPrevStep
    \/ handleNewAnalysis
    \/ startNewAnalysis

SpecPage == InitMounted /\ [][NextPage]_vars

----------------------------------------------------------------------------
(* RCAStepPage instances: the mount effect and its cleanup *)

MaxInstances == 2

\* the events setupActivityTracking listens to
ActivityEvents == {"mousedown", "keydown", "scroll", "touchstart"}

\* the mount effect of a page instance: startKeepalive() and
\* setupActivityTracking()
mount(instances) ==
    /\ \E instance \in instances \ activityListeners :
          activityListeners' = activityListeners \cup {instance}
    /\ startKeepaliveCall({DefaultIntervalMs})

\* the cleanup of the mount effect of a mounted instance: stopKeepalive()
\* and the cleanup function of its activity tracking
unmount ==
    /\ \E instance \in activityListeners :
          activityListeners' = activityListeners \ {instance}
    /\ stopKeepaliveCall

\* one of the four events is dispatched on the document: every registered
\* handleActivity runs
activityEvent(events) ==
    /\ \E event \in events :
          completion' = Completed("dispatchEvent", Str(event), FALSE, Undefined)
    /\ localStorage' =
          IF activityListeners # {} /\ storageAvailable
          THEN setItem(localStorage, ACTIVITY_KEY, ToString(clock))
          ELSE localStorage
    /\ UNCHANGED <<storageAvailable, clock, wizardState, stepNumber, lastSave,
                   reportVars, labelVars, keepaliveVars, activityListeners>>

NextMount ==
    \/ mount(1..MaxInstances)
    \/ unmount
    \/ activityEvent(ActivityEvents)
    \/ timerFires
    \/ advance

SpecMount == InitSnapshot /\ [][NextMount]_vars

----------------------------------------------------------------------------
(* groupedData with feature codes that are arbitrary strings *)

MaxIdentityRecords == 2

\* ground-level and drive-up climate observations of two sizes and two stores
IdentityRecords ==
    {[r EXCEPT !.size = Some(z), !.storeId = s]
       : r \in {BaseRecord, DriveUpClimate(BaseRecord)},
         z \in {S10x10, S5x5}, s \in {1, 2}}

\* feature code lists whose codes are letters, or contain the character
\* that separates the two parts of the group key
IdentityLists ==
    {<<>>,
     <<Entry("Ground Level / Non-Climate", CodeA),
       Entry("Drive-Up / Climate Controlled", CodeZ)>>,
     <<Entry("Ground Level / Non-Climate", <<"A", "|", "B">>),
       Entry("Drive-Up / Climate Controlled", <<"A", "|", "C">>)>>}

NextIdentity ==
    \/ loadRateRecord(IdentityRecords, MaxIdentityRecords)
    \/ updateFeatureCode(IdentityLists)

SpecIdentity == Init /\ [][NextIdentity]_vars

\* the :step segments of /rca/step/:step the page is opened with: the ten
\* steps' ends and middle, and segments whose number is outside the wizard.
\* A missing segment reads as '1' (step || '1'); segments that parse to NaN
\* are left out
StepSegments ==
    {<<"1">>, <<"5">>, <<"1", "0">>, <<"0">>, <<"1", "1">>, <<"1", "3">>,
     <<"-", "3">>, <<" ", "2">>, <<"7", "X">>}

\* the page is opened at /rca/step/<segment>: stepNumber is
\* parseInt(step || '1', 10), the hook starts from what loadWizardState
\* returns, the mount effect starts the keepalive and the state follows the
\* step of the URL
visit(segments) ==
    \E segment \in segments :
        \E r \in {loaded(localStorage, storageAvailable, clock)} :
            reload("visit", localStorage, Val(parseInt(segment)), r)

NextRoute == visit(StepSegments) \/ goToNextStep \/ goToPrevStep

SpecRoute == InitMounted /\ [][NextRoute]_vars

\* every operation of the component together
Next ==
    \/ NextFeature
    \/ NextAdjust
    \/ NextAverage
    \/ NextGroup
    \/ NextOrder
    \/ NextDistance
    \/ NextPooled
    \/ NextClock
    \/ NextSparse
    \/ NextNormalize
    \/ NextStorage
    \/ NextUnavailable
    \/ NextKeepalive
    \/ NextPage
    \/ NextMount
    \/ NextIdentity
    \/ NextRoute

----------------------------------------------------------------------------
(* Statements about the report *)

\* the tag as the specification words it: one access part and one climate
\* part, each the highest-priority flag that is set
SpecAccessPart(r) ==
    CHOOSE a \in {"Drive-Up", "Elevator", "Outdoor", "Ground Level"} :
        \/ a = "Drive-Up" /\ r.driveUp
        \/ a = "Elevator" /\ r.elevator /\ ~r.driveUp
        \/ a = "Outdoor" /\ r.outdoorAccess /\ ~r.driveUp /\ ~r.elevator
        \/ a = "Ground Level" /\ ~r.outdoorAccess /\ ~r.driveUp /\ ~r.elevator

SpecClimatePart(r) ==
    CHOOSE c \in {"Climate Controlled", "Humidity Controlled", "Non-Climate"} :
        \/ c = "Climate Controlled" /\ r.climateControlled
        \/ c = "Humidity Controlled" /\ r.humidityControlled /\ ~r.climateControlled
        \/ c = "Non-Climate" /\ ~r.humidityControlled /\ ~r.climateControlled

SpecTag(r) == SpecAccessPart(r) \o " / " \o SpecClimatePart(r)

\* the entries of the feature code list whose original tag is exactly t
Listed(t) == {k \in DOMAIN featureCodes : featureCodes[k].originalTag = t}

FirstListed(t) == CHOOSE k \in Listed(t) : \A m \in Listed(t) : k <= m

\* the report shows the record r in a group of its raw size and code c
ShownUnder(r, c) ==
    \E gi \in DOMAIN groupedData :
        /\ groupedData[gi].size = recordSize(r)
        /\ groupedData[gi].featureCode = c
        /\ \E ri \in DOMAIN groupedData[gi].stores :
              /\ groupedData[gi].stores[ri].storeId = r.storeId
              /\ groupedData[gi].stores[ri].recordCount >= 1

\* the record r with other values in the fields that are not feature flags
FieldVariants(r) ==
    {[r EXCEPT !.storeId = s, !.size = z, !.onlinePrice = pr, !.date = d]
       : s \in {1, 2}, z \in {Some(S5x5), None},
         pr \in {None, Some(7)}, d \in {None, Some(Now0 - 9)}}

\* the inputs of the report with other values in everything but the list
PropVariants ==
    {[Props EXCEPT !.subjectStore = ss, !.now = n, !.selectedSizes = zs,
                   !.adjustmentFactors = af]
       : ss \in {None, Some(2)}, n \in {Now0, Now0 + 3},
         zs \in {DEFAULT_UNIT_SIZES, <<>>},
         af \in {NoFactors, Factors(Some(5), None, None)}}

SameFlags(r, q) ==
    /\ r.driveUp = q.driveUp
    /\ r.elevator = q.elevator
    /\ r.outdoorAccess = q.outdoorAccess
    /\ r.climateControlled = q.climateControlled
    /\ r.humidityControlled = q.humidityControlled

\* C1: every observation that passes the size filter and whose tag (one
\* access part and one climate part picked by strict priority, joined by
\* " / ") is the original tag of an entry of the feature code list is
\* reported under that entry's code (the first such entry), and the code
\* of an observation stays the same when its other fields and the other
\* inputs of the report take other values.
C1_FeatureCodeFromList ==
    \A i \in DOMAIN rateRecords :
        LET r == rateRecords[i]
        IN  /\ (passesSizeFilter(allowedSizes(Props), r) /\ Listed(SpecTag(r)) # {}) =>
                  ShownUnder(r, featureCodes[FirstListed(SpecTag(r))].code)
            /\ \A q \in FieldVariants(r), pv \in PropVariants :
                  /\ SameFlags(r, q)
                  /\ getFeatureCode(pv, q) = getFeatureCode(Props, r)

\* a drive-up and elevator, climate and humidity controlled observation is
\* reported under the code listed for "Drive-Up / Climate Controlled"
C1_Witness ==
    \E i \in DOMAIN rateRecords :
        LET r == rateRecords[i]
        IN  /\ r.driveUp /\ r.elevator /\ r.climateControlled /\ r.humidityControlled
            /\ Listed("Drive-Up / Climate Controlled") # {}
            /\ ShownUnder(r, featureCodes[FirstListed("Drive-Up / Climate Controlled")].code)
            /\ featureCodes[FirstListed("Drive-Up / Climate Controlled")].code # DUCC

\* the fallback table as the specification words it
SpecFallback(r) ==
    IF r.driveUp THEN (IF r.climateControlled THEN DUCC ELSE DU)
    ELSE IF r.elevator THEN (IF r.climateControlled THEN ECC ELSE ENCC)
    ELSE (IF r.climateControlled THEN GLCC ELSE GNCC)

\* C2: every observation that passes the size filter and whose tag is not
\* in the feature code list is reported under the fallback code of the
\* fixed table (drive-up: DUCC / DU; else elevator: ECC / ENCC; else
\* GLCC / GNCC, outdoor and ground level alike), humidity control without
\* climate control counting as not climate.
C2_FallbackTable ==
    \A i \in DOMAIN rateRecords :
        LET r == rateRecords[i]
        IN  (passesSizeFilter(allowedSizes(Props), r) /\ Listed(featureTag(r)) = {}) =>
                ShownUnder(r, SpecFallback(r))

\* an outdoor, humidity controlled observation without a listed tag is
\* reported under GNCC
C2_Witness ==
    \E i \in DOMAIN rateRecords :
        LET r == rateRecords[i]
        IN  /\ r.outdoorAccess /\ ~r.driveUp /\ ~r.elevator
            /\ r.humidityControlled /\ ~r.climateControlled
            /\ Listed(featureTag(r)) = {}
            /\ featureCodes # <<>>
            /\ ShownUnder(r, GNCC)

----------------------------------------------------------------------------
(* Statements about the adjustment *)

\* the rows of the report: (group index, row index) pairs
Rows ==
    UNION {{<<gi, ri>> : ri \in DOMAIN groupedData[gi].stores} : gi \in DOMAIN groupedData}

RowAt(at) == groupedData[at[1]].stores[at[2]]

\* the window figures of a row or of a group's averages
askingOf(fig, w) ==
    CASE w = 12 -> fig.t12Asking [] w = 6 -> fig.t6Asking
      [] w = 3 -> fig.t3Asking [] w = 1 -> fig.t1Asking

askingAdjOf(fig, w) ==
    CASE w = 12 -> fig.t12AskingAdj [] w = 6 -> fig.t6AskingAdj
      [] w = 3 -> fig.t3AskingAdj [] w = 1 -> fig.t1AskingAdj

inStoreOf(fig, w) ==
    CASE w = 12 -> fig.t12InStore [] w = 6 -> fig.t6InStore
      [] w = 3 -> fig.t3InStore [] w = 1 -> fig.t1InStore

\* the base as the specification words it: the sum of the three components,
\* a missing component counting 0, as a fraction
SpecBase ==
    Rat(OrZero(adjustmentFactors.captiveMarketPremium)
        + OrZero(adjustmentFactors.lossToLease)
        + OrZero(adjustmentFactors.ccAdj), 100)

\* the observations of one store
RecordsOf(id) == SelectSeq(rateRecords, LAMBDA r : r.storeId = id)

\* the scenario of the specification: S is store 1 and the subject, A is
\* store 2, both have 10x10 drive-up climate controlled observations, the
\* base is 5%, no rankings are recorded, and the one observation of S asks
\* 150 one month ago
Scenario ==
    /\ subjectStore = Some(1)
    /\ SpecBase = Rat(5, 100)
    /\ storeRankings[1] = None /\ storeRankings[2] = None
    /\ Len(RecordsOf(1)) = 1 /\ Len(RecordsOf(2)) >= 1
    /\ \A i \in DOMAIN rateRecords :
          /\ rateRecords[i].size = Some(S10x10)
          /\ rateRecords[i].driveUp /\ rateRecords[i].climateControlled
    /\ RecordsOf(1)[1].onlinePrice = Some(150)
    /\ RecordsOf(1)[1].date = Some(computedAt - 1)

\* the rows of store id in the 10x10 groups
ScenarioRows(id) ==
    {at \in Rows : groupedData[at[1]].size = S10x10 /\ RowAt(at).storeId = id}

\* C3 as stated: in the scenario the T-1 adjusted asking figure of the
\* subject store S is 150 x 1.05 = 157.50.
C3_SubjectAdjustedByBase ==
    Scenario =>
        /\ ScenarioRows(1) # {}
        /\ \A at \in ScenarioRows(1) : RowAt(at).t1AskingAdj = Some(Rat(315, 2))

\* C3 amended: in the scenario the subject store S has adjustment 0 and its
\* T-1 adjusted asking figure is its unadjusted figure 150, while A carries
\* the base 5% and its adjusted figures are its unadjusted ones x 1.05.
C3_SubjectUnadjusted ==
    Scenario =>
        /\ ScenarioRows(1) # {} /\ ScenarioRows(2) # {}
        /\ \A at \in ScenarioRows(1) :
              /\ RowAt(at).adjustment = RInt(0)
              /\ RowAt(at).t1Asking = Some(RInt(150))
              /\ RowAt(at).t1AskingAdj = Some(RInt(150))
        /\ \A at \in ScenarioRows(2) :
              /\ RowAt(at).adjustment = Rat(5, 100)
              /\ IsSome(RowAt(at).t12Asking)
              /\ RowAt(at).t12AskingAdj
                   = Some(RMul(Val(RowAt(at).t12Asking), Rat(105, 100)))

\* the scenario with both observations of A, the report showing S and A in
\* one group
C3_Witness ==
    /\ Scenario
    /\ Len(groupedData) = 1
    /\ Len(groupedData[1].stores) = 2
    /\ groupedData[1].featureCode = DUCC
    /\ groupedData[1].stores[1].storeId = 1
    /\ groupedData[1].stores[1].isSubject
    /\ groupedData[1].stores[1].t1AskingAdj = Some(RInt(150))
    /\ groupedData[1].stores[2].adjustment = Rat(5, 100)

\* C6: with a subject store selected, the row of the subject store has
\* adjustment 0, and the row of every other store has the flat base (the
\* three components summed, over 100) whenever that store's rankings or the
\* subject's rankings are absent, whatever the rankings that are present.
C6_SubjectZeroOthersFlatBase ==
    IsSome(subjectStore) =>
        \A at \in Rows :
            /\ RowAt(at).storeId = Val(subjectStore) => RowAt(at).adjustment = RInt(0)
            /\ (/\ RowAt(at).storeId # Val(subjectStore)
                /\ \/ storeRankings[RowAt(at).storeId] = None
                   \/ storeRankings[Val(subjectStore)] = None)
               => RowAt(at).adjustment = SpecBase

\* the subject's rankings are absent, the other store is ranked 8 throughout
\* and all three components are set: the other store carries 7%, the subject 0
C6_Witness ==
    /\ subjectStore = Some(1)
    /\ storeRankings[1] = None
    /\ storeRankings[2] = Some(Uniform(8))
    /\ adjustmentFactors = Factors(Some(4), Some(2), Some(1))
    /\ \E at \in Rows : RowAt(at).storeId = 2 /\ RowAt(at).adjustment = Rat(7, 100)
    /\ \E at \in Rows : RowAt(at).storeId = 1 /\ RowAt(at).adjustment = RInt(0)

\* a category score as the specification words it: only a missing score is 5
SpecScore(rankings, cat) == IF IsSome(rankings[cat]) THEN Val(rankings[cat]) ELSE 5

SpecTotalDiff(subj, comp) ==
    SumSeq([i \in DOMAIN rankingCategories |->
              SpecScore(subj, rankingCategories[i]) - SpecScore(comp, rankingCategories[i])])

\* comp is ranked lower than subj in every category
RankedLower(comp, subj) ==
    \A i \in DOMAIN rankingCategories :
        SpecScore(comp, rankingCategories[i]) < SpecScore(subj, rankingCategories[i])

\* C7 as stated: when the rankings of the subject and of another store both
\* exist, the other store's adjustment is the base plus 0.01 x the mean over
\* the eight categories of (subject score - its score), a missing score
\* counting 5 and every present score (0 included) as recorded; a store
\* ranked lower than the subject in every category then carries strictly
\* more than the base.
C7_RankingDifference ==
    IsSome(subjectStore) =>
        \A at \in Rows :
            (/\ RowAt(at).storeId # Val(subjectStore)
             /\ IsSome(storeRankings[RowAt(at).storeId])
             /\ IsSome(storeRankings[Val(subjectStore)]))
            => LET subj == Val(storeRankings[Val(subjectStore)])
                   comp == Val(storeRankings[RowAt(at).storeId])
               IN  /\ RowAt(at).adjustment
                        = RAdd(SpecBase, RMul(Rat(SpecTotalDiff(subj, comp), 8), Rat(1, 100)))
                   /\ RankedLower(comp, subj) => RLess(SpecBase, RowAt(at).adjustment)

----------------------------------------------------------------------------
(* Statements about the averages *)

\* the observations behind the row at: those of its store that pass the size
\* filter and carry the raw size and the feature code of its group
RowRecords(at) ==
    SelectSeq(rateRecords,
              LAMBDA r : /\ r.storeId = RowAt(at).storeId
                         /\ passesSizeFilter(allowedSizes(Props), r)
                         /\ recordSize(r) = groupedData[at[1]].size
                         /\ getFeatureCode(Props, r) = groupedData[at[1]].featureCode)

\* dated on or after the start of window w of the run that built the report
InWindow(r, w) == IsSome(r.date) /\ Val(r.date) >= computedAt - w

\* the mean of the present prices as the specification words it: every
\* present price is a sample, and no sample gives no value
SpecMean(prices) ==
    LET present == SelectSeq(prices, LAMBDA x : IsSome(x))
    IN  IF Len(present) = 0 THEN None
        ELSE Some(Rat(SumSeq([i \in DOMAIN present |-> Val(present[i])]), Len(present)))

SpecAsking(at, w) ==
    LET recs == SelectSeq(RowRecords(at), LAMBDA r : InWindow(r, w))
    IN  SpecMean([i \in DOMAIN recs |-> recs[i].onlinePrice])

SpecInStore(at, w) ==
    LET recs == SelectSeq(RowRecords(at), LAMBDA r : InWindow(r, w))
    IN  SpecMean([i \in DOMAIN recs |-> recs[i].walkInPrice])

\* C4 as stated: for every row and each of the four windows, the asking
\* (in-store) figure is the mean of all present online (walk-in) prices of
\* the row's observations dated on or after the window start, a present
\* price counting whatever its value, 0 included; the figure is no value
\* exactly when there is no such price.
C4_MeanOfPresentPrices ==
    \A at \in Rows : \A w \in Windows :
        /\ askingOf(RowAt(at), w) = SpecAsking(at, w)
        /\ inStoreOf(RowAt(at), w) = SpecInStore(at, w)

\* C5 as stated: for every row and every window, the adjusted asking figure
\* is the asking mean x (1 + the row's adjustment) whenever the mean has a
\* value, the value 0 included, and is no value exactly when the mean is no
\* value.
C5_AdjustedFollowsAsking ==
    \A at \in Rows : \A w \in Windows :
        LET asking == askingOf(RowAt(at), w)
            adj == askingAdjOf(RowAt(at), w)
        IN  /\ IsSome(asking) =>
                  adj = Some(RMul(Val(asking), RAdd(RInt(1), RowAt(at).adjustment)))
            /\ ~IsSome(asking) <=> ~IsSome(adj)

----------------------------------------------------------------------------
(* Statements about the groups *)

\* the normalized size label of r equals the normalized form of some
\* selected size
SpecPasses(r) ==
    \E i \in DOMAIN selectedSizes :
        normalizeSize(recordSize(r)) = normalizeSize(selectedSizes[i])

Passing == SelectSeq(rateRecords, SpecPasses)

\* the sum of the record counts of the rows of a group
RowCounts(g) == SumSeq([ri \in DOMAIN g.stores |-> g.stores[ri].recordCount])

TotalRowCounts == SumSeq([gi \in DOMAIN groupedData |-> RowCounts(groupedData[gi])])

\* the groups, and in a group the rows, that stand for the observation r
GroupsOf(r) ==
    {gi \in DOMAIN groupedData :
        /\ groupedData[gi].size = recordSize(r)
        /\ groupedData[gi].featureCode = getFeatureCode(Props, r)}

RowsOf(gi, r) ==
    {ri \in DOMAIN groupedData[gi].stores : groupedData[gi].stores[ri].storeId = r.storeId}

\* the passing observations with the raw size, feature code and store of r
Alike(r) ==
    SelectSeq(Passing, LAMBDA q : /\ recordSize(q) = recordSize(r)
                                  /\ getFeatureCode(Props, q) = getFeatureCode(Props, r)
                                  /\ q.storeId = r.storeId)

\* C8: an observation is in the report exactly when its normalized size
\* label equals the normalized form of a selected size; each such
\* observation is counted in exactly one group, the one of its raw size
\* label and feature code, and there in exactly one row, the one of its
\* store; the record counts of all rows sum to the number of observations
\* passing the filter, and no group or row stands for excluded observations.
C8_FilterAndPartition ==
    /\ TotalRowCounts = Len(Passing)
    /\ \A i \in DOMAIN rateRecords :
          LET r == rateRecords[i]
          IN  IF SpecPasses(r)
              THEN /\ Cardinality(GroupsOf(r)) = 1
                   /\ \A gi \in GroupsOf(r) :
                         /\ Cardinality(RowsOf(gi, r)) = 1
                         /\ \A ri \in RowsOf(gi, r) :
                               groupedData[gi].stores[ri].recordCount = Len(Alike(r))
              ELSE \A gi \in DOMAIN groupedData : groupedData[gi].size # recordSize(r)
    /\ \A at \in Rows :
          \E i \in DOMAIN Passing :
              /\ at[1] \in GroupsOf(Passing[i])
              /\ at[2] \in RowsOf(at[1], Passing[i])

\* "10x10" and "10X10 " observations of one store pass the filter and are
\* kept in two groups by their raw labels, while a third label is excluded
C8_Witness ==
    /\ \E i \in DOMAIN rateRecords : ~SpecPasses(rateRecords[i])
    /\ \E gi, gj \in DOMAIN groupedData :
          /\ groupedData[gi].size = S10x10
          /\ groupedData[gj].size = S10X10Trailing
          /\ groupedData[gi].featureCode = groupedData[gj].featureCode
          /\ RowCounts(groupedData[gi]) = 1 /\ RowCounts(groupedData[gj]) = 1
    /\ TotalRowCounts = 2
    /\ Len(rateRecords) = 3

RECURSIVE RSumSeq(_)
RSumSeq(qs) == IF qs = <<>> THEN RInt(0) ELSE RAdd(Head(qs), RSumSeq(Tail(qs)))

SumOfShares == RSumSeq([gi \in DOMAIN groupedData |-> groupedData[gi].marketShare])

\* C9: the market share of a group is its observation count as a percentage
\* of the count of all input observations, filtered out or not; the shares
\* of a report sum to the observations placed in groups over all input
\* observations, as a percentage, never exceed 100, and are 100 only when no
\* observation was filtered out.
C9_ShareOfAllInput ==
    Len(rateRecords) > 0 =>
        /\ \A gi \in DOMAIN groupedData :
              groupedData[gi].marketShare
                = Rat(100 * RowCounts(groupedData[gi]), Len(rateRecords))
        /\ SumOfShares = Rat(100 * TotalRowCounts, Len(rateRecords))
        /\ RLeq(SumOfShares, RInt(100))
        /\ SumOfShares = RInt(100) => Len(Passing) = Len(rateRecords)

\* of three observations one is filtered out and the other two share one
\* group, whose share is two thirds
C9_Witness ==
    /\ Len(rateRecords) = 3
    /\ Len(Passing) = 2
    /\ Len(groupedData) = 1
    /\ groupedData[1].marketShare = Rat(200, 3)

----------------------------------------------------------------------------
(* Statements about the order of the groups *)

\* the area of a size label as the specification words it: the product of
\* the first two numeric tokens after lower-casing, replacing "x" by
\* whitespace and stripping apostrophes; a single token is that number; a
\* label that cannot be parsed has area 0
SpecAreaOf(tokens) ==
    IF Len(tokens) >= 2 /\ IsSome(parseFloat(tokens[1])) /\ IsSome(parseFloat(tokens[2]))
    THEN Val(parseFloat(tokens[1])) * Val(parseFloat(tokens[2]))
    ELSE IF Len(tokens) = 1 /\ IsSome(parseFloat(tokens[1]))
    THEN Val(parseFloat(tokens[1]))
    ELSE 0

SpecArea(sizeStr) ==
    SpecAreaOf(SelectSeq(SplitWs(RemoveChars(ReplaceChar(toLowerCase(sizeStr), "x", " "),
                                             {"'"}), <<>>, FALSE),
                         LAMBDA t : t # <<>>))

\* C10 as stated: the groups of the report are in non-decreasing order of
\* the parsed area of their size labels, a label that cannot be parsed
\* having area 0, and groups of equal area are in ascending order of feature
\* code, for every raw size label that passes the size filter, labels with
\* leading or trailing whitespace or apostrophes included.
C10_GroupsInAreaOrder ==
    \A gi, gj \in DOMAIN groupedData :
        gi < gj =>
            \/ SpecArea(groupedData[gi].size) < SpecArea(groupedData[gj].size)
            \/ /\ SpecArea(groupedData[gi].size) = SpecArea(groupedData[gj].size)
               /\ localeCompare(groupedData[gi].featureCode,
                                groupedData[gj].featureCode) <= 0

----------------------------------------------------------------------------
(* Statements about the order of the rows *)

\* the distance of a store as the specification words it: that of its entry
\* in the selected-store list, 0 for a store that is not in the list
SpecDistanceOf(id) ==
    IF \E i \in DOMAIN selectedStores : selectedStores[i].storeId = id
    THEN selectedStores[CHOOSE i \in DOMAIN selectedStores :
                           /\ selectedStores[i].storeId = id
                           /\ \A j \in 1..(i - 1) : selectedStores[j].storeId # id].distance
    ELSE 0

\* the subject store has an observation in the group g
SubjectIn(g) ==
    /\ IsSome(subjectStore)
    /\ \E i \in DOMAIN Passing :
          /\ Passing[i].storeId = Val(subjectStore)
          /\ recordSize(Passing[i]) = g.size
          /\ getFeatureCode(Props, Passing[i]) = g.featureCode

\* C11: in every group the row of the subject store is first whenever the
\* subject has an observation in the group, and the other rows follow in
\* non-decreasing order of the distance of their store, a store that is not
\* in the selected-store list counting as distance 0.
C11_SubjectFirstThenDistance ==
    \A gi \in DOMAIN groupedData :
        LET rows == groupedData[gi].stores
        IN  /\ SubjectIn(groupedData[gi]) =>
                  /\ rows[1].storeId = Val(subjectStore)
                  /\ rows[1].isSubject
            /\ \A ri \in DOMAIN rows :
                  /\ rows[ri].isSubject => ri = 1
                  /\ rows[ri].distance = SpecDistanceOf(rows[ri].storeId)
            /\ \A ri, rj \in DOMAIN rows :
                  (ri < rj /\ ~rows[ri].isSubject /\ ~rows[rj].isSubject) =>
                      SpecDistanceOf(rows[ri].storeId) <= SpecDistanceOf(rows[rj].storeId)

\* the subject store 2 is the farthest of three stores of a group and its
\* row is first; store 4, which is not in the list, follows before store 3
C11_Witness ==
    /\ subjectStore = Some(2)
    /\ selectedStores = <<Store(1, 0), Store(2, 3), Store(3, 1)>>
    /\ Len(groupedData) = 1
    /\ Len(groupedData[1].stores) = 3
    /\ groupedData[1].stores[1].storeId = 2
    /\ groupedData[1].stores[2].storeId = 4
    /\ groupedData[1].stores[2].distance = 0
    /\ groupedData[1].stores[3].storeId = 3

----------------------------------------------------------------------------
(* Statements about the group averages *)

\* the observations of the group at gi, of every store
GroupMembers(gi) ==
    SelectSeq(Passing, LAMBDA r : /\ recordSize(r) = groupedData[gi].size
                                  /\ getFeatureCode(Props, r) = groupedData[gi].featureCode)

\* the rule of the store rows: the online (walk-in) price of r is a sample
\* of window w when a row of r alone shows an asking (in-store) figure
OnlineSample(r, w) == IsSome(calcAverages(<<r>>, computedAt - w).asking)

WalkInSample(r, w) == IsSome(calcAverages(<<r>>, computedAt - w).inStore)

\* the sum of the prices over their count, no value without a price
PooledMean(prices) ==
    IF Len(prices) = 0 THEN None ELSE Some(Rat(SumSeq(prices), Len(prices)))

PooledAsking(members, w) ==
    PooledMean([i \in DOMAIN members |-> Val(members[i].onlinePrice)])

PooledInStore(members, w) ==
    PooledMean([i \in DOMAIN members |-> Val(members[i].walkInPrice)])

\* C12: for each window the average figures of a group are the sum of the
\* qualifying prices of all observations of the group, whatever their store,
\* over their count, a price qualifying as it does in a store row; the four
\* adjusted asking figures of the group averages are no value.
C12_PooledGroupAverages ==
    \A gi \in DOMAIN groupedData : \A w \in Windows :
        /\ askingOf(groupedData[gi].averages, w)
             = PooledAsking(SelectSeq(GroupMembers(gi), LAMBDA r : OnlineSample(r, w)), w)
        /\ inStoreOf(groupedData[gi].averages, w)
             = PooledInStore(SelectSeq(GroupMembers(gi), LAMBDA r : WalkInSample(r, w)), w)
        /\ askingAdjOf(groupedData[gi].averages, w) = None

\* store 1 asks 2 and 4, store 2 asks 12: the group shows the pooled mean 6,
\* not the mean 15/2 of the store means 3 and 12, and no adjusted figure
\* although the row of store 2 shows one
C12_Witness ==
    /\ Len(groupedData) = 1
    /\ Len(groupedData[1].stores) = 2
    /\ groupedData[1].stores[1].t1Asking = Some(RInt(3))
    /\ groupedData[1].stores[2].t1Asking = Some(RInt(12))
    /\ groupedData[1].stores[2].t1AskingAdj = Some(Rat(132, 10))
    /\ groupedData[1].averages.t1Asking = Some(RInt(6))
    /\ groupedData[1].averages.t1InStore = Some(RInt(5))
    /\ groupedData[1].averages.t1AskingAdj = None

----------------------------------------------------------------------------
(* Statements about the report as a function of its inputs *)

\* the declared inputs of the aggregation (metadata and custom names do not
\* reach the figures of the model)
DeclaredInputs ==
    <<rateRecords, selectedSizes, subjectStore, selectedStores, storeRankings,
      adjustmentFactors, featureCodes>>

\* C13 as stated: a computation that runs with the declared inputs of the
\* computation before it returns the report that one returned, whatever the
\* clock time of either.
C13_SameInputsSameReport ==
    [][(computedAt' # computedAt /\ DeclaredInputs' = DeclaredInputs)
          => groupedData' = groupedData]_vars

----------------------------------------------------------------------------
(* Statements about missing fields *)

\* a number: a fraction with a positive denominator
IsNumber(q) == q \in Int \X (Nat \ {0})

\* a figure: no value, or a number
IsFigure(f) == f = None \/ (IsSome(f) /\ IsNumber(Val(f)))

\* the observations of the row at that can be a sample of its asking
\* (in-store) figures: dated and with an online (walk-in) price
OnlineCandidates(at) ==
    SelectSeq(RowRecords(at), LAMBDA r : IsSome(r.date) /\ IsSome(r.onlinePrice))

WalkInCandidates(at) ==
    SelectSeq(RowRecords(at), LAMBDA r : IsSome(r.date) /\ IsSome(r.walkInPrice))

\* C14: for every input the report is defined: it is empty for an empty
\* observation list, every passing observation has its group and row, every
\* figure is no value or a number, the adjustment and the market share are
\* numbers, and observations without a date or without a price give no
\* value and nothing else.
C14_TotalAndAbsentIsNoValue ==
    /\ rateRecords = <<>> => groupedData = <<>>
    /\ \A i \in DOMAIN Passing :
          \E gi \in GroupsOf(Passing[i]) : RowsOf(gi, Passing[i]) # {}
    /\ \A gi \in DOMAIN groupedData :
          /\ IsNumber(groupedData[gi].marketShare)
          /\ \A w \in Windows :
                /\ IsFigure(askingOf(groupedData[gi].averages, w))
                /\ IsFigure(inStoreOf(groupedData[gi].averages, w))
    /\ \A at \in Rows :
          /\ IsNumber(RowAt(at).adjustment)
          /\ \A w \in Windows :
                /\ IsFigure(askingOf(RowAt(at), w))
                /\ IsFigure(askingAdjOf(RowAt(at), w))
                /\ IsFigure(inStoreOf(RowAt(at), w))
                /\ OnlineCandidates(at) = <<>> =>
                      /\ askingOf(RowAt(at), w) = None
                      /\ askingAdjOf(RowAt(at), w) = None
                /\ WalkInCandidates(at) = <<>> => inStoreOf(RowAt(at), w) = None

\* without a subject store, an observation without a size is left out, and
\* the row of a store that is in no list, whose one observation has neither
\* a date nor a price, shows no value throughout
C14_Witness ==
    /\ subjectStore = None
    /\ Len(rateRecords) = 2
    /\ rateRecords[1].size = None
    /\ rateRecords[2].storeId = 4 /\ rateRecords[2].date = None
    /\ Len(groupedData) = 1
    /\ groupedData[1].marketShare = RInt(50)
    /\ groupedData[1].stores[1].storeId = 4
    /\ groupedData[1].stores[1].recordCount = 1
    /\ \A w \in Windows :
          /\ askingOf(groupedData[1].stores[1], w) = None
          /\ inStoreOf(groupedData[1].stores[1], w) = None
          /\ askingOf(groupedData[1].averages, w) = None

----------------------------------------------------------------------------
(* Statements about normalizeSize *)

\* the characters a label may gain or lose without changing its size
FormChars == {" ", "\t", "'"}

\* the same letter in the other case
OtherCase(c) ==
    IF c \in Range(UpperCase) THEN LowerCase[IndexIn(c, UpperCase)]
    ELSE IF c \in Range(LowerCase) THEN UpperCase[IndexIn(c, LowerCase)]
    ELSE c

\* the labels one edit of form away from s: one whitespace character or
\* apostrophe more, one less, or one letter in the other case
FormVariants(s) ==
    {SubSeq(s, 1, i) \o <<c>> \o SubSeq(s, i + 1, Len(s)) :
        i \in 0..Len(s), c \in FormChars}
    \cup {SubSeq(s, 1, i - 1) \o SubSeq(s, i + 1, Len(s)) :
        i \in {j \in DOMAIN s : s[j] \in FormChars}}
    \cup {[s EXCEPT ![i] = OtherCase(s[i])] : i \in DOMAIN s}

\* C15: normalising a normalised label changes nothing, every label one
\* edit of form away from the given label (whitespace or an apostrophe
\* added or removed, a letter in the other case) normalises to the same
\* string, and "10x10", "10X10 " and "10x10'" all normalise to "10x10"
C15_NormalizeIdempotent ==
    /\ IsSome(normalizedSize) =>
          /\ normalizeSize(Val(normalizedSize)) = Val(normalizedSize)
          /\ \A t \in FormVariants(sizeLabel) :
                normalizeSize(t) = Val(normalizedSize)
    /\ (IsSome(normalizedSize)
          /\ sizeLabel \in {S10x10, S10X10Trailing, S10x10Apostrophe}) =>
          Val(normalizedSize) = S10x10

\* a label with upper case, whitespace and an apostrophe has been normalised
C15_Witness ==
    /\ sizeLabel = <<"X", " ", "'">>
    /\ normalizedSize = Some(<<"x">>)

----------------------------------------------------------------------------
(* Statements about the saved snapshot *)

\* the step is a call of loadWizardState
LoadStep == completion'.call = "loadWizardState" /\ clock' = clock

\* the snapshot in storage carries the current version and is at most
\* seven days old
SnapshotCurrent(snapshot) ==
    /\ snapshot.version = Str(STORAGE_VERSION)
    /\ clock - snapshot.timestamp[2] <= sevenDaysInMs

\* what the claim requires of a call of loadWizardState that finds snapshot
LoadChecksSnapshot(snapshot) ==
    IF SnapshotCurrent(snapshot)
    THEN /\ completion'.value = Obj(snapshot.state)
         /\ localStorage' = localStorage
    ELSE /\ completion'.value = Null
         /\ localStorage'[STORAGE_KEY] = None

\* one of the two queries is called right after loadWizardState returned null
QueryAfterNull(query) ==
    /\ completion.call = "loadWizardState"
    /\ completion.value = Null
    /\ completion'.call = query

\* C16: with a working storage loadWizardState returns the stored state
\* when the snapshot has the current version and is at most 7 days old and
\* leaves it stored; when the version differs or the snapshot is older it
\* returns null and the entry is gone, and hasSavedState() called next
\* returns false and getLastSavedTimestamp() called next returns null
C16_LoadChecksVersionAndAge ==
    [][storageAvailable =>
        /\ (LoadStep /\ IsSome(localStorage[STORAGE_KEY])) =>
              LoadChecksSnapshot(JSONparse(Val(localStorage[STORAGE_KEY])))
        /\ QueryAfterNull("hasSavedState") =>
              (~completion'.threw /\ completion'.value = Bool(FALSE))
        /\ QueryAfterNull("getLastSavedTimestamp") =>
              (~completion'.threw /\ completion'.value = Null)]_vars

\* a snapshot saved more than seven days ago has been loaded: null came
\* back and the entry is gone
C16_Witness ==
    /\ completion = Completed("loadWizardState", Undefined, FALSE, Null)
    /\ lastSave[1] = "saved"
    /\ clock - lastSave[3] > sevenDaysInMs
    /\ localStorage[STORAGE_KEY] = None

\* C17: with a working storage, loadWizardState called less than 7 days
\* after the most recent saveWizardState(s), with no clearWizardState in
\* between, returns exactly s, and loadWizardState called after
\* clearWizardState with no later save returns null
C17_RoundTrip ==
    (storageAvailable /\ completion.call = "loadWizardState") =>
        /\ (lastSave[1] = "saved" /\ clock - lastSave[3] < sevenDaysInMs) =>
              completion.value = Obj(lastSave[2])
        /\ lastSave[1] = "cleared" => completion.value = Null

\* a state with a property that is undefined and one whose text is "null"
\* was saved over another one and loaded a week less a minute later
C17_Witness ==
    /\ completion = Completed("loadWizardState", Undefined, FALSE, Obj(NullText))
    /\ lastSave = <<"saved", NullText, 1>>
    /\ clock = sevenDaysInMs

----------------------------------------------------------------------------
(* Statements about a storage that throws *)

\* C18: when every localStorage operation throws, no call of
\* saveWizardState, loadWizardState, clearWizardState, hasSavedState,
\* getLastSavedTimestamp, startKeepalive or the activity handler lets an
\* exception out, nothing is stored or removed, loadWizardState and
\* getLastSavedTimestamp return null and hasSavedState returns false
C18_FallbackWhenUnavailable ==
    [][~storageAvailable =>
        /\ ~completion'.threw
        /\ localStorage' = localStorage
        /\ completion'.call \in {"loadWizardState", "getLastSavedTimestamp"} =>
              completion'.value = Null
        /\ completion'.call = "hasSavedState" =>
              completion'.value = Bool(FALSE)]_vars

----------------------------------------------------------------------------
(* Statements about the keepalive timer *)

\* the timers that are live are the ones the last call asks for: one with
\* the interval given to startKeepalive, none after stopKeepalive, and
\* calling stopKeepalive once more changes nothing
TimersAsLastCall ==
    /\ Cardinality(timers) <= 1
    /\ completion.call = "startKeepalive" =>
          \E timer \in timers :
              /\ timers = {timer}
              /\ Num(timer.intervalMs) = completion.arg
              /\ keepaliveInterval = Some(timer.id)
    /\ completion.call = "stopKeepalive" =>
          /\ timers = {}
          /\ keepaliveInterval = None
          /\ stopped(timers, keepaliveInterval) = timers

\* while a timer is live the stored timestamp is at most one interval old
StampFresh ==
    \A timer \in timers :
        \E at \in (clock - timer.intervalMs)..clock :
            localStorage[KEEPALIVE_KEY] = Some(ToString(at))

\* the step is a call of startKeepalive: a timer id is handed out
StartStep == timerIds' # timerIds

\* the step takes the clock to the instant a live timer is due
DueStep == clock' # clock /\ \E timer \in timers : timer.due = clock'

\* the step writes the timestamp of its instant, once
WritesOnce ==
    /\ keepaliveWrites' = keepaliveWrites + 1
    /\ localStorage'[KEEPALIVE_KEY] = Some(ToString(clock'))

\* the step does not write the timestamp
WritesNothing ==
    /\ keepaliveWrites' = keepaliveWrites
    /\ localStorage'[KEEPALIVE_KEY] = localStorage[KEEPALIVE_KEY]

\* C20: after any sequence of startKeepalive and stopKeepalive calls at
\* most one interval timer is live, exactly one with the interval of the
\* latest startKeepalive if that was the last call and none if the last
\* call was stopKeepalive, which is idempotent; with a working storage
\* every startKeepalive writes 'app-keepalive' once at once, a live timer
\* writes it once each time its interval has passed, and nothing writes it
\* otherwise, in particular not after stopKeepalive
C20_OneLiveTimer ==
    [][/\ TimersAsLastCall'
       /\ storageAvailable =>
             /\ StampFresh'
             /\ (StartStep \/ DueStep) => WritesOnce
             /\ ~(StartStep \/ DueStep) => WritesNothing]_vars

\* keepalive was started with the default interval, its timer fired, it was
\* started again with a shorter interval and that timer fired as well
C20_Witness ==
    /\ storageAvailable
    /\ completion.call = "startKeepalive"
    /\ timers = {[id |-> 2, intervalMs |-> 2, due |-> 9]}
    /\ keepaliveWrites = 4
    /\ localStorage[KEEPALIVE_KEY] = Some("7")

----------------------------------------------------------------------------
(* Statements about starting a new analysis *)

\* the controls that start a new analysis
NewAnalysisControls == {"handleNewAnalysis", "startNewAnalysis"}

\* C19: once a control that starts a new analysis has reloaded the page,
\* the hook found no saved snapshot to restore and the wizard is in its
\* empty initial state at step 1
C19_NewAnalysisStartsEmpty ==
    completion.call \in NewAnalysisControls =>
        /\ completion.value = Null
        /\ wizardState = initialState
        /\ stepNumber = 1

----------------------------------------------------------------------------
(* Statements about activity tracking and page instances *)

\* the step is the dispatch of an activity event
EventStep == completion'.call = "dispatchEvent" /\ clock' = clock

\* C21: after one of the four events while the keepalive is running and
\* the listeners are registered, the keepalive timer is next due one full
\* interval after the event; once the cleanup has removed the listeners an
\* event no longer writes 'app-last-activity'
C21_ActivityResetsTimer ==
    [][EventStep =>
        /\ (activityListeners # {}) =>
              \A timer \in timers' : timer.due = clock + timer.intervalMs
        /\ (activityListeners = {}) =>
              localStorage'[ACTIVITY_KEY] = localStorage[ACTIVITY_KEY]]_vars

\* C25: a keepalive timer is live whenever a page instance that has
\* mounted has not yet unmounted
C25_TimerWhileMounted ==
    activityListeners # {} => timers # {}

----------------------------------------------------------------------------
(* Statements about hasSavedState *)

\* the step is a call of hasSavedState that returns true
SavedStep ==
    /\ completion'.call = "hasSavedState"
    /\ completion'.value = Bool(TRUE)
    /\ clock' = clock

\* C23: when hasSavedState() returns true, loadWizardState() called at the
\* same instant on the same storage returns a state and not null
C23_SavedStateCanBeLoaded ==
    [][SavedStep => loaded(localStorage, storageAvailable, clock).value # Null]_vars

----------------------------------------------------------------------------
(* Statements about the identity of the groups *)

\* the observation r passing the filter has the size and the feature code
\* of the group
CountedIn(g, r) ==
    /\ SpecPasses(r)
    /\ g.size = recordSize(r)
    /\ g.featureCode = getFeatureCode(Props, r)

\* C24: every observation passing the filter is counted in a group whose
\* size is its raw size label and whose featureCode is its derived feature
\* code, every group carries the size and code of an observation, and no
\* two groups of the report have the same size and featureCode
C24_GroupIdentity ==
    /\ \A i \in DOMAIN rateRecords :
          SpecPasses(rateRecords[i]) =>
              \E gi \in DOMAIN groupedData : CountedIn(groupedData[gi], rateRecords[i])
    /\ \A gi \in DOMAIN groupedData :
          \E i \in DOMAIN rateRecords : CountedIn(groupedData[gi], rateRecords[i])
    /\ \A gi, gj \in DOMAIN groupedData :
          (groupedData[gi].size = groupedData[gj].size
              /\ groupedData[gi].featureCode = groupedData[gj].featureCode) => gi = gj

\* C22: step navigation stays inside the wizard: whatever the current step
\* is, also one taken from a URL outside 1..10, goToNextStep and
\* goToPrevStep navigate to a step number in 1..WIZARD_STEPS.length,
\* goToNextStep at the last step stays on the last step and goToPrevStep at
\* step 1 stays on step 1
NextStepTaken == completion'.call = "goToNextStep"

PrevStepTaken == completion'.call = "goToPrevStep"

C22_NavigationInsideWizard ==
    [][/\ NextStepTaken \/ PrevStepTaken => stepNumber' \in 1..WizardStepCount
       /\ NextStepTaken /\ stepNumber = WizardStepCount => stepNumber' = WizardStepCount
       /\ PrevStepTaken /\ stepNumber = 1 => stepNumber' = 1]_vars

====
